---- MODULE Spec2Model ----
(***************************************************************************)
(* ProfessionalReActAgent (src/src/agents/professional_react_agent.py):    *)
(* the stage pipeline of process(), the four-phase planner, the ReAct      *)
(* execute loop with its self-healing retry, and the class-level schema    *)
(* cache shared by the agents of one process; next to it the reasoning     *)
(* client of BaseAgent (src/src/agents/base_agent.py), the structured      *)
(* extraction _extract_json and the ConversationMemory of a session, and   *)
(* the orchestration package (src/src/orchestration): BigQueryTool, the    *)
(* PlanAndExecuteAgent, the ReActAgent and the LangGraph graphs.           *)
(*                                                                         *)
(* A turn is a coroutine; every action below is the code that runs from    *)
(* one await (a reasoning-service call or a tool call) to the next, with   *)
(* the outcome of the awaited call drawn from a small set.                 *)
(***************************************************************************)
EXTENDS Integers, Sequences, FiniteSets, TLC

(* ------------------------------ bounds -------------------------------- *)

\* longest plan the reasoning service hands back to a single session
MaxSteps == 2

\* longest plan when several sessions share the process
MaxStepsShared == 1

\* where the instrumentation counter of execute calls saturates
CallCap == 6

\* where the instrumentation counter of sample queries per table saturates
QueryCap == 2

(* ------------------------- program constants -------------------------- *)

\* _act: max_retries = 2
max_retries == 2

\* the agents (sessions) of the process
Agents == {"a1", "a2"}

NoAgent == "none"

\* names of the registered tools (self.tools)
Tools == {"bigquery", "analyze", "report"}

\* tool inputs the reasoning service can produce; "" is an empty answer
Inputs == {"q1", "q2"}

\* steps a plan can be made of: a critical and a non-critical query step,
\* a critical step of another registered tool, and a critical step whose
\* action names no registered tool. depends_on is the list of step ids the
\* reasoning service gives with a step (empty when it gives none).
StepPool ==
    { [id |-> 1, action |-> "bigquery", critical |-> TRUE,
       depends_on |-> {}],
      [id |-> 2, action |-> "bigquery", critical |-> FALSE,
       depends_on |-> {1}],
      [id |-> 3, action |-> "analyze",  critical |-> TRUE,
       depends_on |-> {1, 2}],
      [id |-> 4, action |-> "lookup",   critical |-> TRUE,
       depends_on |-> {}] }

\* non-empty step lists of at most n steps
PlanCatalog(n) == UNION { [1..k -> StepPool] : k \in 1..n }

(* ------------------------ structured extraction ----------------------- *)

\* What a reasoning-service response is to json.loads: text no tier of
\* _extract_json can parse, a JSON scalar, a JSON array, or a JSON object
\* (with or without a "steps" key).
PhaseResponses ==
    { [kind |-> k, has_steps |-> FALSE, steps |-> << >>] :
          k \in {"unparsed", "scalar", "array", "object"} }

\* the same, with the objects that carry a step list of at most n steps
Responses(n) ==
    PhaseResponses
    \cup { [kind |-> "object", has_steps |-> TRUE, steps |-> s] :
          s \in PlanCatalog(n) \cup { << >> } }

\* _extract_json(response, default): the parsed value, or the caller's
\* default when no tier parses
ExtractJson(response, default) ==
    IF response.kind = "unparsed" THEN default ELSE response

\* the default of _optimize_execution and the fallback of _validate_plan
FallbackStep ==
    [id |-> 1, action |-> "bigquery", critical |-> TRUE, depends_on |-> {}]

DefaultOptimized ==
    [kind |-> "object", has_steps |-> TRUE, steps |-> << FallbackStep >>]

NoOptimized == [kind |-> "unparsed", has_steps |-> FALSE, steps |-> << >>]

(* ------------------------------- state -------------------------------- *)

VARIABLES
    shared_schema_cache,   \* ProfessionalReActAgent._shared_schema_cache is set
    constructed,           \* agent -> __init__ has run
    enable_db_exploration, \* agent -> config flag
    db_schema_cache,       \* agent -> self.db_schema_cache is set
    clarification_given,   \* agent -> self.clarification_given
    clarify_exits,         \* agent -> turns that returned the clarification
    data_samples,          \* agent -> names of the tables in self.data_samples
    sample_queries,        \* table -> sample queries sent to the data source
    cur,                   \* the agent whose process() is running
    pc,                    \* the await process() is suspended at
    stage_0,               \* this turn ran _stage_0_db_exploration
    stage_1,               \* the Understanding
    optimized,             \* output of _optimize_execution
    all_unparsed,          \* every planner response so far failed to parse
    plan,                  \* stage_2['steps']
    idx,                   \* index of the step being executed
    attempt,               \* _act: loop variable
    tool_input,            \* _act: tool_input
    via,                   \* _act: the branch that asked for the repair
    exec_calls,            \* tool.execute calls made for the current step
    stalled,               \* the last repair returned the failed input
    repair_calls,          \* _react_fix_query calls made for the current step
    repaired,              \* the last repair's answer replaced tool_input
    last_outcome,          \* how the latest tool.execute call ended
    logged_attempts,       \* n of "Query succeeded after n attempts", 0: not logged
    execution_log,         \* _stage_3_execution: execution_log
    completed_steps,       \* stage_3['completed_steps']
    val_attempt,           \* _stage_4_validation: loop variable
    stage_4,               \* the Validation
    val_calls,             \* reasoning calls made by _stage_4_validation
    val_response,          \* what the latest of them answered
    memory_adds,           \* add_interaction calls made by this turn
    planner_called,        \* this turn made a planner reasoning call
    tool_called,           \* this turn made a tool.execute call
    result,                \* what process() returned (or how it ended)
    llm_config,            \* BaseAgent: config["llm"]
    llm_clients,           \* BaseAgent: the clients _setup_llm_clients made
    llm_result,            \* BaseAgent: how the latest _call_llm ended
    response,              \* _extract_json: the text handed in
    extracted,             \* _extract_json: what it handed back
    max_history,           \* ConversationMemory.max_history
    short_term,            \* ConversationMemory.short_term
    long_term,             \* ConversationMemory.long_term
    added,                 \* interactions handed to add_interaction so far
    session_pc,            \* agent -> where its own process() call stands
    turns,                 \* agent -> process() calls it has started
    explorations,          \* agent -> _stage_0_db_exploration runs of its turns
    wf_node,               \* DataAnalysisWorkflow: the node that ran last
    wf_route,              \* what _route_analysis answered
    validation_status,     \* AgentState["validation_status"]
    retry_count,           \* AgentState["retry_count"]
    retries_taken,         \* times the run took the retry edge
    supersteps,            \* graph steps of the run so far
    tasks,                 \* _call_ensemble: provider -> its call's state
    query_cache,           \* ConversationCache.query_cache: key -> result
    cache_hits,            \* ConversationCache.cache_hits
    cache_misses,          \* ConversationCache.cache_misses
    stored,                \* the cache_result calls since the last clear_cache
    last_get,              \* the latest get_cached_result call
    query_pc,              \* BigQueryTool under _act: where the call stands
    tool_llm,              \* BigQueryTool.llm is set
    act_attempt,           \* _act: loop variable, for the step under way
    bq_attempt,            \* BigQueryTool.execute: loop variable
    bq_input,              \* _act: tool_input handed to BigQueryTool.execute
    sql_query,             \* BigQueryTool.execute: sql_query
    call_queries,          \* execute_query calls of the latest tool call
    query_executions,      \* execute_query calls made for the step
    tool_executes,         \* BigQueryTool.execute calls made for the step
    act_result,            \* what _act returned for the step
    pe_pc,                 \* PlanAndExecuteAgent.execute: where it stands
    pe_plan,               \* execute: plan
    pe_idx,                \* execute: position of `subtask` in plan
    pe_results,            \* execute: results, id -> status
    pe_log,                \* execute: execution_log
    pe_completed,          \* the "completed" of the returned dict
    pe_status,             \* position in plan -> how that subtask ended
    pe_called,             \* positions whose tool.execute was called
    pe_critical_failed,    \* a subtask marked critical has failed
    ra_pc,                 \* ReActAgent.execute: where it stands
    max_iterations,        \* ReActAgent.max_iterations
    ra_iteration,          \* state["iteration"]
    ra_completed,          \* state["completed"]
    ra_final_answer,       \* state holds "final_answer"
    ra_error,              \* state holds "error"
    current_action,        \* state["current_action"]
    observations,          \* state["observations"], by their action
    ra_tool_actions,       \* tool.execute calls made by this execute call
    ra_exceptions,         \* exceptions caught by this execute call
    sc_node,               \* showcase graph: the node that runs next
    sc_stage,              \* AgentState["stage"]
    sc_retry_count,        \* AgentState["retry_count"]
    sc_needs_clarification, \* AgentState["needs_clarification"]
    sc_error,              \* AgentState["error"] is non-empty
    sc_messages,           \* AgentState["messages"], by their kind
    sc_failed_validations, \* validation_node runs of this run that failed
    sc_recoveries,         \* times this run entered error_recovery
    sc_synthesized,        \* synthesis_node ran in this run
    sc_raised,             \* the run ended in an exception
    sc_supersteps          \* graph steps of this run

agentVars == << shared_schema_cache, constructed, enable_db_exploration,
                db_schema_cache, clarification_given, clarify_exits,
                data_samples, sample_queries >>

planVars == << optimized, all_unparsed, plan >>

actVars == << idx, attempt, tool_input, via, exec_calls, stalled,
             repair_calls, repaired, last_outcome, logged_attempts >>

execVars == << execution_log, completed_steps >>

valVars == << val_attempt, stage_4, val_calls, val_response >>

callVars == << planner_called, tool_called >>

\* the state of one call of process()
turnVars == << cur, pc, stage_0, stage_1, planVars, actVars, execVars,
               valVars, memory_adds, callVars, result >>

routerVars == << llm_config, llm_clients, llm_result, tasks >>

extractVars == << response, extracted >>

memoryVars == << max_history, short_term, long_term, added >>

sessionVars == << session_pc, turns, explorations >>

workflowVars == << wf_node, wf_route, validation_status, retry_count,
                   retries_taken, supersteps >>

cacheVars == << query_cache, cache_hits, cache_misses, stored, last_get >>

toolVars == << query_pc, tool_llm, act_attempt, bq_attempt, bq_input,
              sql_query, call_queries, query_executions, tool_executes,
              act_result >>

planExecVars == << pe_pc, pe_plan, pe_idx, pe_results, pe_log,
                  pe_completed, pe_status, pe_called, pe_critical_failed >>

reactVars == << ra_pc, max_iterations, ra_iteration, ra_completed,
               ra_final_answer, ra_error, current_action, observations,
               ra_tool_actions, ra_exceptions >>

showcaseVars == << sc_node, sc_stage, sc_retry_count,
                  sc_needs_clarification, sc_error, sc_messages,
                  sc_failed_validations, sc_recoveries, sc_synthesized,
                  sc_raised, sc_supersteps >>

\* the orchestration package, the tools and the showcase graph
orchVars == << toolVars, planExecVars, reactVars, showcaseVars >>

\* the parts the stage pipeline leaves alone
libVars == << routerVars, extractVars, memoryVars, sessionVars,
              workflowVars, cacheVars, orchVars >>

\* everything outside the orchestration package and the tools
baseVars == << agentVars, turnVars, routerVars, extractVars, memoryVars,
              sessionVars, workflowVars, cacheVars >>

\* what the actions of BigQueryTool leave alone
exceptTool == << baseVars, planExecVars, reactVars, showcaseVars >>

\* what the actions of PlanAndExecuteAgent leave alone
exceptPlanExec == << baseVars, toolVars, reactVars, showcaseVars >>

\* what the actions of ReActAgent leave alone
exceptReAct == << baseVars, toolVars, planExecVars, showcaseVars >>

\* what the nodes of the showcase graph leave alone
exceptShowcase == << baseVars, toolVars, planExecVars, reactVars >>

\* ids a subtask can carry
TaskIds == {"task_1", "task_2"}

vars == << agentVars, turnVars, libVars >>

NoUnderstanding ==
    [present |-> FALSE, needs_clarification |-> FALSE, is_data_query |-> TRUE]

NoValidation == [present |-> FALSE, valid |-> FALSE, confidence |-> 0]

\* the tables of the schema _stage_0_db_exploration stores
Tables == {"products", "orders", "order_items", "users"}

\* no request has been made of the reasoning client
NoConfig ==
    [use_ensemble |-> FALSE, primary |-> "ollama", secondary |-> "none",
     api_key |-> FALSE, fallback |-> "none", bedrock_ok |-> FALSE]

\* no provider has been called
NoCall ==
    [status |-> "none", mode |-> "none", provider |-> "none", length |-> 0,
     tried |-> {}, replies |-> << >>]

\* no provider call of an ensemble is in flight
NoTasks ==
    [p \in {"ollama", "gemini"} |->
        [state |-> "none", ok |-> FALSE, length |-> 0]]

\* _extract_json has not been called
NoExtraction ==
    [called |-> FALSE, tier |-> 0, value |-> << >>, raised |-> FALSE,
     planner |-> [tier |-> 0, value |-> << >>, raised |-> FALSE]]

\* ConversationMemory.__init__: max_history: int = 50
DefaultMaxHistory == 50

\* queries handed to the ConversationCache
CacheQueries == {"q1", "q2"}

\* the params argument: left out (None), an empty dict, a dict with the
\* number 1 as its key and a dict with the string "1" as its key
CacheParams == {"None", "empty", "int_key", "str_key"}

CacheCalls == CacheQueries \X CacheParams

\* json.dumps(params or {}, sort_keys=True): None is rendered as the empty
\* dict, and a key that is a number as the string of its digits
DumpParams(params) ==
    CASE params \in {"None", "empty"}      -> "{}"
      [] params \in {"int_key", "str_key"} -> "{\"1\": \"a\"}"

\* a key made of the query alone
GenerateCacheKey_QueryOnly(query, params) == << query, "{}" >>

\* _generate_cache_key: the digest of "<query>:<params>"; two texts are
\* taken to have two digests
GenerateCacheKey(query, params) == << query, DumpParams(params) >>

CacheKeys == { GenerateCacheKey(c[1], c[2]) : c \in CacheCalls }

\* results a caller stores
CacheResults == {"r1", "r2"}

\* a key query_cache does not hold; what get_cached_result returns on a miss
NoEntry == "None"

\* get_cached_result has not been called
NoGet == [query |-> "none", params |-> "None", returned |-> NoEntry]

\* the agents before any of them is constructed, no turn running
InitAgent ==
    /\ shared_schema_cache = FALSE
    /\ constructed = [a \in Agents |-> FALSE]
    /\ enable_db_exploration = [a \in Agents |-> TRUE]
    /\ db_schema_cache = [a \in Agents |-> FALSE]
    /\ clarification_given = [a \in Agents |-> FALSE]
    /\ clarify_exits = [a \in Agents |-> 0]
    /\ data_samples = [a \in Agents |-> {}]
    /\ sample_queries = [t \in Tables |-> 0]
    /\ cur = NoAgent
    /\ pc = "idle"
    /\ stage_0 = FALSE
    /\ stage_1 = NoUnderstanding
    /\ optimized = NoOptimized
    /\ all_unparsed = TRUE
    /\ plan = << >>
    /\ idx = 0
    /\ attempt = 0
    /\ tool_input = ""
    /\ via = "none"
    /\ exec_calls = 0
    /\ stalled = FALSE
    /\ repair_calls = 0
    /\ repaired = FALSE
    /\ last_outcome = "none"
    /\ logged_attempts = 0
    /\ execution_log = << >>
    /\ completed_steps = 0
    /\ val_attempt = 0
    /\ stage_4 = NoValidation
    /\ val_calls = 0
    /\ val_response = "none"
    /\ memory_adds = 0
    /\ planner_called = FALSE
    /\ tool_called = FALSE
    /\ result = "none"

\* the reasoning client before _setup_llm_clients
InitRouter ==
    /\ llm_config = NoConfig
    /\ llm_clients = {}
    /\ llm_result = NoCall
    /\ tasks = NoTasks

\* no text has been handed to _extract_json
InitExtract ==
    /\ response = << >>
    /\ extracted = NoExtraction

\* ConversationMemory.__init__ as ProfessionalReActAgent.__init__ calls it
InitMemory ==
    /\ max_history = DefaultMaxHistory
    /\ short_term = << >>
    /\ long_term = << >>
    /\ added = 0

\* no session has called process()
InitSessions ==
    /\ session_pc = [a \in Agents |-> "idle"]
    /\ turns = [a \in Agents |-> 0]
    /\ explorations = [a \in Agents |-> 0]

\* DataAnalysisWorkflow before run(): initial_state has validation_status
\* False and retry_count 0
InitWorkflow ==
    /\ wf_node = "init"
    /\ wf_route = "none"
    /\ validation_status = FALSE
    /\ retry_count = 0
    /\ retries_taken = 0
    /\ supersteps = 0

\* ConversationCache.__init__
InitCache ==
    /\ query_cache = [k \in CacheKeys |-> NoEntry]
    /\ cache_hits = 0
    /\ cache_misses = 0
    /\ stored = << >>
    /\ last_get = NoGet

\* no BigQueryTool built yet
InitTool ==
    /\ query_pc = "unbuilt"
    /\ tool_llm = FALSE
    /\ act_attempt = 0
    /\ bq_attempt = 0
    /\ bq_input = ""
    /\ sql_query = ""
    /\ call_queries = 0
    /\ query_executions = 0
    /\ tool_executes = 0
    /\ act_result = "none"

\* PlanAndExecuteAgent: no execute call made yet
InitPlanExec ==
    /\ pe_pc = "idle"
    /\ pe_plan = << >>
    /\ pe_idx = 1
    /\ pe_results = [id \in TaskIds |-> "absent"]
    /\ pe_log = << >>
    /\ pe_completed = FALSE
    /\ pe_status = << >>
    /\ pe_called = {}
    /\ pe_critical_failed = FALSE

\* no ReActAgent built yet
InitReAct ==
    /\ ra_pc = "unbuilt"
    /\ max_iterations = 0
    /\ ra_iteration = 0
    /\ ra_completed = FALSE
    /\ ra_final_answer = FALSE
    /\ ra_error = FALSE
    /\ current_action = "none"
    /\ observations = << >>
    /\ ra_tool_actions = 0
    /\ ra_exceptions = 0

\* the compiled showcase graph, no run started
InitShowcase ==
    /\ sc_node = "idle"
    /\ sc_stage = "none"
    /\ sc_retry_count = 0
    /\ sc_needs_clarification = FALSE
    /\ sc_error = FALSE
    /\ sc_messages = << >>
    /\ sc_failed_validations = 0
    /\ sc_recoveries = 0
    /\ sc_synthesized = FALSE
    /\ sc_raised = FALSE
    /\ sc_supersteps = 0

Init ==
    /\ InitAgent /\ InitRouter /\ InitExtract /\ InitMemory
    /\ InitSessions /\ InitWorkflow /\ InitCache /\ InitTool
    /\ InitPlanExec /\ InitReAct /\ InitShowcase

(* --------------------------- process(): frame ------------------------- *)

\* a try block that ends before the validation stage
TryCovers_UntilExecute(stage) == stage \in {"understand", "plan", "execute"}

\* the try block of process() encloses the stage (lines 143-232)
TryCovers(stage) == TRUE

\* An exception raised in `stage` ends the turn: caught by the except clause
\* of process() it becomes {success: False, error, query}.
Raise(stage) ==
    /\ result' = IF TryCovers(stage) THEN "error" ELSE "escaped"
    /\ pc' = "idle"

\* the transient records of a turn, as a new call of process() finds them
ResetTurn ==
    /\ stage_1' = NoUnderstanding
    /\ optimized' = NoOptimized
    /\ all_unparsed' = TRUE
    /\ plan' = << >>
    /\ idx' = 0
    /\ attempt' = 0
    /\ tool_input' = ""
    /\ via' = "none"
    /\ exec_calls' = 0
    /\ stalled' = FALSE
    /\ repair_calls' = 0
    /\ repaired' = FALSE
    /\ last_outcome' = "none"
    /\ logged_attempts' = 0
    /\ execution_log' = << >>
    /\ completed_steps' = 0
    /\ val_attempt' = 0
    /\ stage_4' = NoValidation
    /\ val_calls' = 0
    /\ val_response' = "none"
    /\ memory_adds' = 0
    /\ planner_called' = FALSE
    /\ tool_called' = FALSE
    /\ result' = "none"

\* __init__: a new agent takes the class-level cache as it is now
Construct(a, enable) ==
    /\ ~constructed[a]
    /\ constructed' = [constructed EXCEPT ![a] = TRUE]
    /\ enable_db_exploration' = [enable_db_exploration EXCEPT ![a] = enable]
    /\ db_schema_cache' = [db_schema_cache EXCEPT ![a] = shared_schema_cache]
    /\ clarification_given' = [clarification_given EXCEPT ![a] = FALSE]
    /\ data_samples' = [data_samples EXCEPT ![a] = {}]
    /\ UNCHANGED << shared_schema_cache, clarify_exits, sample_queries,
                    turnVars, libVars >>

\* process() condition for running Explore
NeedsExploration(a) == enable_db_exploration[a] /\ ~db_schema_cache[a]

\* process() up to the reasoning call of _stage_1_understanding, with
\* _stage_0_db_exploration (which never suspends) when the agent holds no
\* schema
StartTurn(a) ==
    /\ pc = "idle"
    /\ constructed[a]
    /\ cur' = a
    /\ stage_0' = NeedsExploration(a)
    /\ IF NeedsExploration(a)
       THEN /\ db_schema_cache' = [db_schema_cache EXCEPT ![a] = TRUE]
            /\ shared_schema_cache' = TRUE
       ELSE UNCHANGED << db_schema_cache, shared_schema_cache >>
    /\ ResetTurn
    /\ pc' = "understand"
    /\ UNCHANGED << constructed, enable_db_exploration, clarification_given,
                    clarify_exits, data_samples, sample_queries, libVars >>

\* a pipeline that runs the validation again after the interpretation
StageAfter_Back(stage) ==
    CASE stage = "understand" -> "plan_sample"
      [] stage = "interpret"  -> "validate"

\* process(): the stage whose call follows the return of `stage`
\* (_stage_2_planning after _stage_1_understanding, _stage_6_synthesis after
\* _stage_5_interpretation)
StageAfter(stage) ==
    CASE stage = "understand" -> "plan_sample"
      [] stage = "interpret"  -> "synthesize"

\* "Only ask for clarification once per session"
ShouldClarify_Always(u, given) == u.needs_clarification

ShouldClarify(u, given) == u.needs_clarification /\ ~given

\* a routing that takes every query for a data query
IsDataQuery_Ignored(u) == TRUE

\* stage_1.get("is_data_query", True)
IsDataQuery(u) == u.is_data_query

Understandings ==
    [present : {TRUE}, needs_clarification : BOOLEAN, is_data_query : BOOLEAN]

\* _stage_1_understanding returns u; process() routes on it
UnderstandReturn(u) ==
    /\ pc = "understand"
    /\ stage_1' = u
    /\ IF ShouldClarify(u, clarification_given[cur])
       THEN /\ clarification_given' = [clarification_given EXCEPT ![cur] = TRUE]
            /\ clarify_exits' =
                   [clarify_exits EXCEPT ![cur] = IF @ < 2 THEN @ + 1 ELSE @]
            /\ result' = "clarification"
            /\ pc' = "idle"
       ELSE /\ UNCHANGED << clarification_given, clarify_exits >>
            /\ IF ~IsDataQuery(u)
               THEN result' = "non_data" /\ pc' = "idle"
               ELSE result' = result /\ pc' = StageAfter("understand")
    /\ UNCHANGED << shared_schema_cache, constructed, enable_db_exploration,
                    db_schema_cache, data_samples, sample_queries, cur,
                    stage_0, planVars, actVars, execVars, valVars,
                    memory_adds, callVars, libVars >>

\* the reasoning call of _stage_1_understanding fails on every provider
UnderstandRaise ==
    /\ pc = "understand"
    /\ Raise("understand")
    /\ UNCHANGED << libVars, memory_adds, callVars, agentVars, cur, stage_0, stage_1, planVars, actVars,
                    execVars, valVars >>

(* ------------------------ Plan: _stage_2_planning --------------------- *)

\* the tables whose sample query came back with data: none or all of them
SampleOutcomes == {{}, Tables}

\* a sampling that never looks at the stored samples
HasSamples_Never(samples) == FALSE

\* "if self.data_samples": a non-empty dict of stored samples
HasSamples(samples) == samples # {}

\* an agent whose db_schema_cache is always a dict
HoldsSchema_Any(a) == TRUE

\* self.db_schema_cache is a dict, so that .get('tables', []) does not raise
HoldsSchema(a) == db_schema_cache[a]

\* Phase 0, _sample_data_formats. With stored samples it returns them.
\* Otherwise it walks self.db_schema_cache.get('tables'), which raises on an
\* agent that holds no schema, sends one sample query per table to the
\* bigquery tool (a failing query is logged and skipped) and stores what came
\* back, be it empty. The tool calls of the loop are taken as one step: no
\* other code of the process runs between them here.
PlanSample(sampled) ==
    /\ pc = "plan_sample"
    /\ IF HasSamples(data_samples[cur])
       THEN /\ pc' = "plan_strategic"
            /\ UNCHANGED << data_samples, sample_queries, result,
                            tool_called >>
       ELSE IF ~HoldsSchema(cur)
       THEN /\ Raise("plan")
            /\ UNCHANGED << data_samples, sample_queries, tool_called >>
       ELSE /\ tool_called' = TRUE
            /\ sample_queries' =
                  [t \in Tables |->
                      IF sample_queries[t] < QueryCap
                      THEN sample_queries[t] + 1 ELSE sample_queries[t]]
            /\ data_samples' = [data_samples EXCEPT ![cur] = sampled]
            /\ pc' = "plan_strategic"
            /\ result' = result
    /\ UNCHANGED << shared_schema_cache, constructed, enable_db_exploration,
                    db_schema_cache, clarification_given, clarify_exits, cur,
                    stage_0, stage_1, planVars, actVars, execVars, valVars,
                    memory_adds, planner_called, libVars >>

\* Phase 1, _strategic_analysis returns; _problem_decomposition builds its
\* prompt with strategic.get(...), which raises unless the value is a dict
PlanStrategic(r) ==
    /\ pc = "plan_strategic"
    /\ planner_called' = TRUE
    /\ all_unparsed' = (all_unparsed /\ r.kind = "unparsed")
    /\ IF r.kind \in {"scalar", "array"}
       THEN Raise("plan")
       ELSE pc' = "plan_decompose" /\ result' = result
    /\ UNCHANGED << libVars, memory_adds, tool_called, agentVars, cur, stage_0, stage_1, optimized, plan,
                    actVars, execVars, valVars >>

\* Phase 2, _problem_decomposition returns; _optimize_execution starts with
\* decomposition.get('atomic_steps', [])
PlanDecompose(r) ==
    /\ pc = "plan_decompose"
    /\ planner_called' = TRUE
    /\ all_unparsed' = (all_unparsed /\ r.kind = "unparsed")
    /\ IF r.kind \in {"scalar", "array"}
       THEN Raise("plan")
       ELSE pc' = "plan_optimize" /\ result' = result
    /\ UNCHANGED << libVars, memory_adds, tool_called, agentVars, cur, stage_0, stage_1, optimized, plan,
                    actVars, execVars, valVars >>

\* Phase 3, _optimize_execution returns the parsed plan or its one-step
\* default
PlanOptimize(r) ==
    /\ pc = "plan_optimize"
    /\ planner_called' = TRUE
    /\ all_unparsed' = (all_unparsed /\ r.kind = "unparsed")
    /\ optimized' = ExtractJson(r, DefaultOptimized)
    /\ pc' = "plan_validate"
    /\ UNCHANGED << libVars, memory_adds, tool_called, agentVars, cur, stage_0, stage_1, plan, actVars,
                    execVars, valVars, result >>

\* _validate_plan without its guard against a missing or empty step list
ValidatePlan_NoFallback(validated) == validated.steps

\* _validate_plan: "if 'steps' not in validated or not validated['steps']"
\* replaces the plan by the single critical query step
ValidatePlan(validated) ==
    IF validated.kind # "object" \/ ~validated.has_steps
          \/ validated.steps = << >>
    THEN << FallbackStep >>
    ELSE validated.steps

\* Phase 4, _validate_plan returns the plan ('steps' not in <number> raises),
\* and _stage_3_execution runs up to the reasoning call of the first _think
PlanValidate(r) ==
    /\ pc = "plan_validate"
    /\ planner_called' = TRUE
    /\ all_unparsed' = (all_unparsed /\ r.kind = "unparsed")
    /\ LET validated == ExtractJson(r, optimized) IN
       IF validated.kind = "scalar"
       THEN /\ Raise("plan")
            /\ UNCHANGED << optimized, plan, idx, completed_steps >>
       ELSE /\ plan' = ValidatePlan(validated)
            /\ optimized' = NoOptimized
            /\ result' = result
            /\ IF plan' = << >>
               THEN pc' = "validate" /\ idx' = 0 /\ completed_steps' = 0
               ELSE pc' = "think" /\ idx' = 1
                    /\ UNCHANGED completed_steps
    /\ UNCHANGED << libVars, memory_adds, tool_called, agentVars, cur, stage_0, stage_1,
                    attempt, tool_input, via, exec_calls, stalled,
                    repair_calls, repaired, last_outcome, logged_attempts,
                    execution_log, valVars >>

\* a planner reasoning call fails on every provider
PlanRaise ==
    /\ pc \in {"plan_strategic", "plan_decompose", "plan_optimize",
               "plan_validate"}
    /\ planner_called' = TRUE
    /\ Raise("plan")
    /\ UNCHANGED << libVars, memory_adds, tool_called, agentVars, cur, stage_0, stage_1, planVars, actVars,
                    execVars, valVars >>

(* ---------------------- Execute: _stage_3_execution ------------------- *)

\* What tool.execute hands back: a result without an 'error' key that is
\* truthy ("ok") or falsy ("empty": None, {}, []), or a dict with an 'error'
\* key ("error"); it can also raise. "none" is _act's None for an action
\* that names no registered tool.
ToolOutcomes == {"ok", "empty", "error", "raise"}

\* Python truth value of an action_result
Truthy(res) == res \in {"ok", "error"}

\* an observation that does not look for the 'error' key
Observe_NoError(res) ==
    IF ~Truthy(res) THEN "Action failed - no result" ELSE "Action completed"

\* _observe
Observe(res) ==
    IF ~Truthy(res) THEN "Action failed - no result"
    ELSE IF res = "error" THEN "Error"
    ELSE "Action completed"

\* the dict _stage_3_execution appends for step number i
LogEntry(i, step, res) ==
    [ step_id        |-> step.id,
      step_number    |-> i,
      action         |-> step.action,
      observation    |-> Observe(res),
      status         |-> IF Truthy(res) THEN "success" ELSE "failed",
      result_preview |-> IF Truthy(res) THEN res ELSE "None" ]

\* an append that puts the new entry in front
AppendLog_Front(log, entry) == << entry >> \o log

\* execution_log.append(...)
AppendLog(log, entry) == Append(log, entry)

\* a count of all the entries
CompletedSteps_Length(log) == Len(log)

\* len([log for log in execution_log if log['status'] == 'success'])
CompletedSteps(log) ==
    Cardinality({ i \in 1..Len(log) : log[i].status = "success" })

\* "Stop if critical step failed": step.get('critical') and not action_result
StopsLoop(step, res) == step.critical /\ ~Truthy(res)

\* _act has returned res for step idx: observe, append the log entry, then
\* break, move on to the next step's _think, or return from the stage to
\* the reasoning call of _stage_4_validation. (The results dict, which only
\* feeds later prompts, is not part of the state here.)
FinishStep(res) ==
    LET step == plan[idx]
        log2 == AppendLog(execution_log, LogEntry(idx, step, res))
    IN  /\ execution_log' = log2
        /\ attempt' = 0
        /\ tool_input' = ""
        /\ via' = "none"
        /\ IF StopsLoop(step, res) \/ idx = Len(plan)
           THEN /\ completed_steps' = CompletedSteps(log2)
                /\ idx' = idx
                /\ pc' = "validate"
           ELSE /\ completed_steps' = completed_steps
                /\ idx' = idx + 1
                /\ pc' = "think"

\* _think returns; _act looks the tool up and asks for the tool input
Think ==
    /\ pc = "think"
    /\ exec_calls' = 0
    /\ stalled' = FALSE
    /\ repair_calls' = 0
    /\ repaired' = FALSE
    /\ last_outcome' = "none"
    /\ logged_attempts' = 0
    /\ IF plan[idx].action \notin Tools
       THEN FinishStep("none")
       ELSE /\ pc' = "prepare"
            /\ UNCHANGED << idx, attempt, tool_input, via, execVars >>
    /\ UNCHANGED << libVars, memory_adds, callVars, agentVars, cur, stage_0, stage_1, planVars, valVars,
                    result >>

\* _prepare_tool_input returns q; the retry loop starts
Prepare(q) ==
    /\ pc = "prepare"
    /\ tool_input' = q
    /\ attempt' = 0
    /\ pc' = "execute"
    /\ UNCHANGED << libVars, memory_adds, callVars, agentVars, cur, stage_0, stage_1, planVars, idx, via,
                    exec_calls, stalled, repair_calls, repaired,
                    last_outcome, logged_attempts, execVars, valVars,
                    result >>

\* the reasoning call of _think or of _prepare_tool_input fails
ExecuteRaise ==
    /\ pc \in {"think", "prepare"}
    /\ Raise("execute")
    /\ UNCHANGED << libVars, memory_adds, callVars, agentVars, cur, stage_0, stage_1, planVars, actVars,
                    execVars, valVars >>

\* a loop that never advances its counter
NextAttempt_Stuck(a) == a

\* "for attempt in range(max_retries + 1)": the next value of attempt
NextAttempt(a) == a + 1

\* range(max_retries + 1) still holds the value a
InRange(a) == a < max_retries + 1

\* "attempt < max_retries and tool_name == 'bigquery'"
CanRepair(a, tool_name) == a < max_retries /\ tool_name = "bigquery"

\* the loop goes round with `input`: the next tool.execute, or, the range
\* exhausted, the final "return {'error': last_error}"
NextIteration(input) ==
    IF InRange(NextAttempt(attempt))
    THEN /\ attempt' = NextAttempt(attempt)
         /\ tool_input' = input
         /\ via' = "none"
         /\ pc' = "execute"
         /\ UNCHANGED << idx, execVars >>
    ELSE FinishStep("error")

\* a message that gives the loop variable as the number of attempts
LoggedAttempts_Index(a) == a

\* "Query succeeded after {attempt + 1} attempts"
LoggedAttempts(a) == a + 1

\* tool.execute(tool_input) returns or raises
ToolExecute(outcome) ==
    /\ pc = "execute"
    /\ tool_called' = TRUE
    /\ exec_calls' = IF exec_calls < CallCap THEN exec_calls + 1 ELSE exec_calls
    /\ stalled' = stalled
    /\ repair_calls' = repair_calls
    /\ repaired' = repaired
    /\ last_outcome' = outcome
    /\ logged_attempts' =
           IF outcome \in {"ok", "empty"} /\ attempt > 0
           THEN LoggedAttempts(attempt) ELSE logged_attempts
    /\ CASE outcome \in {"ok", "empty"} -> FinishStep(outcome)
         [] outcome = "error" ->
              IF CanRepair(attempt, plan[idx].action)
              THEN /\ pc' = "repair"
                   /\ via' = "result"
                   /\ UNCHANGED << idx, attempt, tool_input, execVars >>
              ELSE FinishStep("error")
         [] outcome = "raise" ->
              IF CanRepair(attempt, plan[idx].action)
              THEN /\ pc' = "repair"
                   /\ via' = "exception"
                   /\ UNCHANGED << idx, attempt, tool_input, execVars >>
              ELSE IF attempt = max_retries
                   THEN FinishStep("error")
                   ELSE NextIteration(tool_input)
    /\ UNCHANGED << libVars, memory_adds, planner_called, agentVars, cur, stage_0, stage_1, planVars, valVars,
                    result >>

\* what the repair reasoning call can answer: a query, nothing, or a failure
RepairAnswers == Inputs \cup {"", "raise"}

\* _react_fix_query: the stripped answer, or broken_query when the call fails
ReactFixQuery(broken_query, answer) ==
    IF answer = "raise" THEN broken_query ELSE answer

\* _react_fix_query returns; "if fixed_input and fixed_input != tool_input"
\* retries with it. Otherwise the error-result branch returns the result,
\* while the except branch returns only on the last attempt and else falls
\* out of the handler into the next iteration.
Repair(answer) ==
    /\ pc = "repair"
    /\ LET fixed_input == ReactFixQuery(tool_input, answer) IN
       /\ stalled' = (fixed_input = tool_input)
       /\ repair_calls' = repair_calls + 1
       /\ repaired' = (fixed_input # "" /\ fixed_input # tool_input)
       /\ IF fixed_input # "" /\ fixed_input # tool_input
          THEN NextIteration(fixed_input)
          ELSE IF via = "result"
               THEN FinishStep("error")
               ELSE IF attempt = max_retries
                    THEN FinishStep("error")
                    ELSE NextIteration(tool_input)
    /\ UNCHANGED << libVars, memory_adds, callVars, agentVars, cur, stage_0, stage_1, planVars, exec_calls,
                    last_outcome, logged_attempts, valVars, result >>

(* ------------- Validate, Interpret, Synthesize: process() tail --------- *)

\* _stage_4_validation: max_retries = 2
val_max_retries == 2

ValidatorOutcomes == {"valid", "invalid", "unparsed", "missing", "raise"}

\* a process() that goes back to Plan on an invalid validation
AfterValidate_Retry(valid) == IF valid THEN "interpret" ELSE "plan_sample"

\* a process() that returns when the validation is invalid
AfterValidate_OnlyValid(valid) == IF valid THEN "interpret" ELSE "idle"

\* process(): _stage_5_interpretation follows _stage_4_validation
AfterValidate(valid) == "interpret"

\* a check that the unparsed response's default does not pass
ValidationReturned_Parsed(o) == o \in {"valid", "invalid"}

\* "if 'valid' in validation and 'confidence' in validation": true of a
\* parsed object with both keys, and of the default _extract_json hands back
\* for text it cannot parse, which has both keys as well
ValidationReturned(o) == o \in {"valid", "invalid", "unparsed"}

\* one reasoning call of _stage_4_validation answers: a parsed object with
\* 'valid' and 'confidence', text that does not parse, a parsed value lacking
\* a key, or a failure. The first two are returned; the others go round the
\* loop and end in the fallback validation.
Validate(o) ==
    /\ pc = "validate"
    /\ val_calls' = val_calls + 1
    /\ val_response' = o
    /\ IF ~ValidationReturned(o) /\ val_attempt < val_max_retries
       THEN /\ val_attempt' = val_attempt + 1
            /\ UNCHANGED << stage_4, pc >>
       ELSE /\ val_attempt' = val_attempt
            /\ stage_4' =
                 IF ~ValidationReturned(o)
                 THEN [present |-> TRUE, valid |-> (completed_steps > 0),
                       confidence |-> 70]
                 ELSE IF o = "unparsed"
                 THEN [present |-> TRUE, valid |-> (completed_steps > 0),
                       confidence |-> 80]
                 ELSE [present |-> TRUE, valid |-> (o = "valid"),
                       confidence |-> 95]
            /\ pc' = AfterValidate(stage_4'.valid)
    /\ UNCHANGED << libVars, memory_adds, callVars, agentVars, cur, stage_0, stage_1,
                    planVars, actVars, execVars, result >>

\* _stage_5_interpretation returns
Interpret ==
    /\ pc = "interpret"
    /\ pc' = StageAfter("interpret")
    /\ UNCHANGED << libVars, memory_adds, callVars, agentVars, cur, stage_0, stage_1, planVars, actVars,
                    execVars, valVars, result >>

\* a turn that returns without storing the interaction
UpdateMemory_Skipped(n) == n

\* _update_memory: one self.memory.add_interaction(...)
UpdateMemory(n) == n + 1

\* _stage_6_synthesis returns; process() stores the interaction with
\* _update_memory and returns the full result. (What add_interaction does to
\* the memory is the subject of SpecMemory; here the calls are counted.)
Synthesize ==
    /\ pc = "synthesize"
    /\ memory_adds' = UpdateMemory(memory_adds)
    /\ result' = "full"
    /\ pc' = "idle"
    /\ UNCHANGED << libVars, callVars, agentVars, cur, stage_0, stage_1,
                    planVars, actVars, execVars, valVars >>

\* the reasoning call of _stage_5_interpretation or _stage_6_synthesis fails
TailRaise ==
    /\ pc \in {"interpret", "synthesize"}
    /\ Raise(pc)
    /\ UNCHANGED << libVars, memory_adds, callVars, agentVars, cur, stage_0, stage_1, planVars, actVars,
                    execVars, valVars >>

(* --------------------------- specification ---------------------------- *)

\* one session: the whole turn pipeline, plans of up to MaxSteps steps
Next ==
    \/ \E enable \in BOOLEAN : Construct("a1", enable)
    \/ StartTurn("a1")
    \/ \E u \in Understandings : UnderstandReturn(u)
    \/ UnderstandRaise
    \/ \E sampled \in SampleOutcomes : PlanSample(sampled)
    \/ \E r \in PhaseResponses : PlanStrategic(r)
    \/ \E r \in PhaseResponses : PlanDecompose(r)
    \/ \E r \in Responses(MaxSteps) : PlanOptimize(r)
    \/ \E r \in Responses(MaxSteps) : PlanValidate(r)
    \/ PlanRaise
    \/ Think
    \/ \E q \in Inputs : Prepare(q)
    \/ ExecuteRaise
    \/ \E outcome \in ToolOutcomes : ToolExecute(outcome)
    \/ \E answer \in RepairAnswers : Repair(answer)
    \/ \E o \in ValidatorOutcomes : Validate(o)
    \/ Interpret
    \/ Synthesize
    \/ TailRaise

Spec == Init /\ [][Next]_vars

\* the sessions of one process, constructed and run in any order, with
\* plans of up to MaxStepsShared steps
NextProcess ==
    \/ \E a \in Agents, enable \in BOOLEAN : Construct(a, enable)
    \/ \E a \in Agents : StartTurn(a)
    \/ \E u \in Understandings : UnderstandReturn(u)
    \/ UnderstandRaise
    \/ \E sampled \in SampleOutcomes : PlanSample(sampled)
    \/ \E r \in PhaseResponses : PlanStrategic(r)
    \/ \E r \in PhaseResponses : PlanDecompose(r)
    \/ \E r \in Responses(MaxStepsShared) : PlanOptimize(r)
    \/ \E r \in Responses(MaxStepsShared) : PlanValidate(r)
    \/ PlanRaise
    \/ Think
    \/ \E q \in Inputs : Prepare(q)
    \/ ExecuteRaise
    \/ \E outcome \in ToolOutcomes : ToolExecute(outcome)
    \/ \E answer \in RepairAnswers : Repair(answer)
    \/ \E o \in ValidatorOutcomes : Validate(o)
    \/ Interpret
    \/ Synthesize
    \/ TailRaise

SpecProcess == Init /\ [][NextProcess]_vars

\* one session whose reasoning service answers every call of the stages
\* (no call of them fails on every provider), with plans of up to
\* MaxStepsShared steps. A turn is a coroutine the event loop resumes when
\* the call it awaits has answered: a step of the tail that is enabled is
\* taken.
NextAnswered ==
    \/ \E enable \in BOOLEAN : Construct("a1", enable)
    \/ StartTurn("a1")
    \/ \E u \in Understandings : UnderstandReturn(u)
    \/ \E sampled \in SampleOutcomes : PlanSample(sampled)
    \/ \E r \in PhaseResponses : PlanStrategic(r)
    \/ \E r \in PhaseResponses : PlanDecompose(r)
    \/ \E r \in Responses(MaxStepsShared) : PlanOptimize(r)
    \/ \E r \in Responses(MaxStepsShared) : PlanValidate(r)
    \/ Think
    \/ \E q \in Inputs : Prepare(q)
    \/ \E outcome \in ToolOutcomes : ToolExecute(outcome)
    \/ \E answer \in RepairAnswers : Repair(answer)
    \/ \E o \in ValidatorOutcomes : Validate(o)
    \/ Interpret
    \/ Synthesize

SpecAnswered ==
    /\ Init
    /\ [][NextAnswered]_vars
    /\ WF_vars(Interpret)
    /\ WF_vars(Synthesize)

(* --------------- sessions whose turns run concurrently ---------------- *)

\* process() calls followed per session
MaxTurns == 2

\* process() of session a from its first line to the first await that
\* suspends it, the reasoning call of _stage_1_understanding. There is no
\* await inside _stage_0_db_exploration, so a turn that explores has stored
\* the schema (in its own agent and in the class) before another turn runs.
ProcessEnter(a) ==
    /\ constructed[a]
    /\ session_pc[a] = "idle"
    /\ turns[a] < MaxTurns
    /\ turns' = [turns EXCEPT ![a] = @ + 1]
    /\ session_pc' = [session_pc EXCEPT ![a] = "understand"]
    /\ IF NeedsExploration(a)
       THEN /\ db_schema_cache' = [db_schema_cache EXCEPT ![a] = TRUE]
            /\ shared_schema_cache' = TRUE
            /\ explorations' = [explorations EXCEPT ![a] = @ + 1]
       ELSE UNCHANGED << db_schema_cache, shared_schema_cache,
                         explorations >>
    /\ UNCHANGED << constructed, enable_db_exploration, clarification_given,
                    clarify_exits, data_samples, sample_queries, turnVars,
                    routerVars, extractVars, memoryVars, workflowVars,
                    cacheVars, orchVars >>

\* the rest of the turn of session a: process() returns
ProcessReturn(a) ==
    /\ session_pc[a] = "understand"
    /\ session_pc' = [session_pc EXCEPT ![a] = "idle"]
    /\ UNCHANGED << turns, explorations, orchVars, agentVars, turnVars, routerVars,
                    extractVars, memoryVars, workflowVars, cacheVars >>

\* the sessions of one process, their turns interleaved at the awaits
NextSessions ==
    \/ \E a \in Agents, enable \in BOOLEAN : Construct(a, enable)
    \/ \E a \in Agents : ProcessEnter(a)
    \/ \E a \in Agents : ProcessReturn(a)

SpecSessions == Init /\ [][NextSessions]_vars

(* ------------------------ DataAnalysisWorkflow ------------------------ *)

\* graph steps of a run the model follows
MaxSupersteps == 20

\* _should_continue: "if retry_count < 2"
RetryLimit == 2

\* _route_analysis: a keyword of the list occurs in the query or not
Routes == {"bigquery", "custom"}

\* _should_continue(state)
ShouldContinue(status, count) ==
    IF status THEN "continue"
    ELSE IF count < RetryLimit THEN "retry"
    ELSE "error"

\* the conditional edges of validate_results
EdgeOf(decision) ==
    CASE decision = "continue" -> "analyze_data"
      [] decision = "retry"    -> "generate_sql"
      [] decision = "error"    -> "END"

\* node `node` runs and hands over to `next`; the update a node returns
\* leaves retry_count as it is (no node returns the key)
NodeStep(node, next) ==
    /\ wf_node = node
    /\ supersteps < MaxSupersteps
    /\ wf_node' = next
    /\ supersteps' = supersteps + 1
    /\ retry_count' = retry_count
    /\ UNCHANGED << orchVars, agentVars, turnVars, routerVars, extractVars,
                    memoryVars, sessionVars, cacheVars >>

\* run(query): ainvoke(initial_state) starts at the entry point
RunWorkflow ==
    /\ wf_node = "init"
    /\ wf_node' = "retrieve_memory"
    /\ validation_status' = FALSE
    /\ retry_count' = 0
    /\ UNCHANGED << wf_route, retries_taken, supersteps, orchVars, agentVars,
                    turnVars, routerVars, extractVars, memoryVars,
                    sessionVars, cacheVars >>

\* retrieve_memory
RetrieveMemory ==
    /\ NodeStep("retrieve_memory", "plan_analysis")
    /\ UNCHANGED << wf_route, validation_status, retries_taken >>

\* plan_analysis; _route_analysis picks the conditional edge, and the plain
\* edge to generate_sql is taken on either route
PlanAnalysis(route) ==
    /\ NodeStep("plan_analysis", "generate_sql")
    /\ wf_route' = route
    /\ UNCHANGED << validation_status, retries_taken >>

\* generate_sql, after plan_analysis or by the retry edge
GenerateSql ==
    /\ NodeStep("generate_sql", "execute_query")
    /\ UNCHANGED << wf_route, validation_status, retries_taken >>

\* On the bigquery route the graph runs execute_bigquery_analysis in the
\* same step as the first generate_sql, and both nodes return generated_sql
\* and current_step. A graph library that takes one value per key and step
\* ends the run with an error there; one that takes both goes on, and the
\* validation_status the other branch wrote is overwritten by
\* validate_results.
ParallelUpdate ==
    /\ wf_route = "bigquery"
    /\ retries_taken = 0
    /\ NodeStep("generate_sql", "failed")
    /\ UNCHANGED << wf_route, validation_status, retries_taken >>

\* execute_query
ExecuteQuery ==
    /\ NodeStep("execute_query", "validate_results")
    /\ UNCHANGED << wf_route, validation_status, retries_taken >>

\* validate_results stores validation["status"]; _should_continue picks the
\* edge: analyze_data, back to generate_sql, or END
ValidateResults(status) ==
    /\ NodeStep("validate_results",
                EdgeOf(ShouldContinue(status, retry_count)))
    /\ validation_status' = status
    /\ retries_taken' =
           IF ShouldContinue(status, retry_count) = "retry"
           THEN retries_taken + 1 ELSE retries_taken
    /\ UNCHANGED wf_route

\* analyze_data
AnalyzeData ==
    /\ NodeStep("analyze_data", "generate_report")
    /\ UNCHANGED << wf_route, validation_status, retries_taken >>

\* generate_report
GenerateReport ==
    /\ NodeStep("generate_report", "store_memory")
    /\ UNCHANGED << wf_route, validation_status, retries_taken >>

\* store_memory, then END
StoreMemory ==
    /\ NodeStep("store_memory", "END")
    /\ UNCHANGED << wf_route, validation_status, retries_taken >>

WorkflowNodes ==
    {"retrieve_memory", "plan_analysis", "generate_sql", "execute_query",
     "validate_results", "analyze_data", "generate_report", "store_memory"}

\* the call node n awaits raises: ainvoke raises, the run is over
NodeRaises(n) ==
    /\ NodeStep(n, "failed")
    /\ UNCHANGED << wf_route, validation_status, retries_taken >>

NextWorkflow ==
    \/ RunWorkflow
    \/ RetrieveMemory
    \/ \E route \in Routes : PlanAnalysis(route)
    \/ GenerateSql
    \/ ParallelUpdate
    \/ ExecuteQuery
    \/ \E status \in BOOLEAN : ValidateResults(status)
    \/ AnalyzeData
    \/ GenerateReport
    \/ StoreMemory
    \/ \E n \in WorkflowNodes : NodeRaises(n)

SpecWorkflow == Init /\ [][NextWorkflow]_vars

(* -------------------------- ConversationCache ------------------------- *)

\* get_cached_result calls followed
MaxGets == 2

\* cache_result calls followed between two clear_cache calls
MaxStores == 2

\* "if cache_key in self.query_cache"
InCache(cache, key) == cache[key] # NoEntry

\* get_cached_result(query, params)
GetCachedResult(query, params) ==
    /\ cache_hits + cache_misses < MaxGets
    /\ LET cache_key == GenerateCacheKey(query, params) IN
       IF InCache(query_cache, cache_key)
       THEN /\ cache_hits' = cache_hits + 1
            /\ cache_misses' = cache_misses
            /\ last_get' = [query |-> query, params |-> params,
                            returned |-> query_cache[cache_key]]
       ELSE /\ cache_misses' = cache_misses + 1
            /\ cache_hits' = cache_hits
            /\ last_get' = [query |-> query, params |-> params,
                            returned |-> NoEntry]
    /\ UNCHANGED << query_cache, stored, orchVars, agentVars, turnVars, routerVars,
                    extractVars, memoryVars, sessionVars, workflowVars >>

\* cache_result(query, result, params), result written res
CacheResult(query, res, params) ==
    /\ Len(stored) < MaxStores
    /\ query_cache' =
           [query_cache EXCEPT ![GenerateCacheKey(query, params)] = res]
    /\ stored' = Append(stored, [query |-> query, params |-> params,
                                 result |-> res])
    /\ UNCHANGED << cache_hits, cache_misses, last_get, orchVars, agentVars, turnVars,
                    routerVars, extractVars, memoryVars, sessionVars,
                    workflowVars >>

\* clear_cache(): query_cache.clear(); the counters stay
ClearCache ==
    /\ query_cache' = [k \in CacheKeys |-> NoEntry]
    /\ stored' = << >>
    /\ UNCHANGED << cache_hits, cache_misses, last_get, orchVars, agentVars, turnVars,
                    routerVars, extractVars, memoryVars, sessionVars,
                    workflowVars >>

NextCache ==
    \/ \E c \in CacheCalls : GetCachedResult(c[1], c[2])
    \/ \E c \in CacheCalls, res \in CacheResults :
          CacheResult(c[1], res, c[2])
    \/ ClearCache

SpecCache == Init /\ [][NextCache]_vars

(* ------------------- BaseAgent: the reasoning client ------------------ *)

\* longest response a provider gives (0 is the empty string)
MaxReply == 2

Providers == {"ollama", "gemini", "bedrock"}

\* config["llm"]: the ensemble flag, the primary, secondary and fallback
\* providers, and what the environment adds to them (GOOGLE_API_KEY is set,
\* boto3.client succeeds)
Configs ==
    [use_ensemble : BOOLEAN, primary : {"ollama", "google"},
     secondary : {"google", "none"}, api_key : BOOLEAN,
     fallback : {"aws_bedrock", "none"}, bedrock_ok : BOOLEAN]

\* _setup_llm_clients: ollama_host exists when the primary provider is
\* ollama, gemini_model when google is the primary or secondary provider and
\* the key is set, bedrock_client when aws_bedrock is the fallback provider
\* and its client could be made
Clients(cfg) ==
    (IF cfg.primary = "ollama" THEN {"ollama"} ELSE {})
    \cup (IF (cfg.primary = "google" \/ cfg.secondary = "google")
              /\ cfg.api_key
          THEN {"gemini"} ELSE {})
    \cup (IF cfg.fallback = "aws_bedrock" /\ cfg.bedrock_ok
          THEN {"bedrock"} ELSE {})

\* what one provider call does: it raises, or returns a text of some length
Replies ==
    { [ok |-> FALSE, length |-> 0] }
    \cup { [ok |-> TRUE, length |-> n] : n \in 0..MaxReply }

\* _call_llm returns the text of provider p
Returned(mode, p, replies, tried) ==
    [status |-> "returned", mode |-> mode, provider |-> p,
     length |-> replies[p].length, tried |-> tried, replies |-> replies]

\* _call_llm raises
Raised(mode, replies, tried) ==
    [status |-> "raised", mode |-> mode, provider |-> "none", length |-> 0,
     tried |-> tried, replies |-> replies]

\* the last provider call of a chain: its text, or its exception
LastCall(p, replies, tried) ==
    IF replies[p].ok THEN Returned("single", p, replies, tried \cup {p})
    ELSE Raised("single", replies, tried \cup {p})

\* a test for None only: an empty text counts as a response
TruthyText_NotNone(reply) == reply.ok

\* Python truth value of ollama_result / gemini_result: None for a call
\* that raised, else the text, and an empty text is false
TruthyText(reply) == reply.ok /\ reply.length > 0

\* _call_ensemble: both calls are awaited (asyncio.gather with
\* return_exceptions), then the longer text wins, gemini on a tie
CallEnsemble(replies) ==
    LET o == replies["ollama"]
        g == replies["gemini"]
        both == {"ollama", "gemini"}
    IN  IF TruthyText(o) /\ TruthyText(g)
        THEN IF o.length > g.length
             THEN Returned("ensemble", "ollama", replies, both)
             ELSE Returned("ensemble", "gemini", replies, both)
        ELSE IF TruthyText(o)
        THEN Returned("ensemble", "ollama", replies, both)
        ELSE IF TruthyText(g)
        THEN Returned("ensemble", "gemini", replies, both)
        ELSE Raised("ensemble", replies, both)

\* the two provider calls of _call_ensemble
Ensemble == {"ollama", "gemini"}

\* a call that has no text to give
NoReply == [ok |-> FALSE, length |-> 0]

\* a provider call of the ensemble: in flight ("pending"), over with its
\* text or exception ("settled"), or cancelled
Task(state, reply) ==
    [state |-> state, ok |-> reply.ok, length |-> reply.length]

\* _call_llm: "if use_ensemble and hasattr(self, 'ollama_host') and
\* self.gemini_model"
UseEnsemble(cfg, clients) ==
    cfg.use_ensemble /\ "ollama" \in clients /\ "gemini" \in clients

\* _call_llm with the clients of cfg, each provider answering as in replies
CallLlm(cfg, clients, replies) ==
    IF UseEnsemble(cfg, clients)
    THEN CallEnsemble(replies)
    ELSE IF cfg.primary = "ollama"
    THEN IF replies["ollama"].ok
         THEN Returned("single", "ollama", replies, {"ollama"})
         ELSE IF "gemini" \in clients
              THEN LastCall("gemini", replies, {"ollama"})
              ELSE Raised("single", replies, {"ollama"})
    ELSE IF "gemini" \in clients /\ replies["gemini"].ok
         THEN Returned("single", "gemini", replies, {"gemini"})
         ELSE LET tried == clients \cap {"gemini"} IN
              IF "ollama" \in clients
              THEN LastCall("ollama", replies, tried)
              ELSE IF "bedrock" \in clients
              THEN LastCall("bedrock", replies, tried)
              ELSE Raised("single", replies, tried)

\* BaseAgent.__init__ -> _setup_llm_clients with config cfg
SetupLlmClients(cfg) ==
    /\ llm_result.status = "none"
    /\ llm_config' = cfg
    /\ llm_clients' = Clients(cfg)
    /\ llm_result' = [llm_result EXCEPT !.status = "ready"]
    /\ UNCHANGED << tasks, orchVars, agentVars, turnVars, extractVars, memoryVars,
                    sessionVars, workflowVars, cacheVars >>

\* one call of _call_llm outside ensemble mode: the providers are called
\* one after the other
CallLlmAction(replies) ==
    /\ llm_result.status \in {"ready", "returned", "raised"}
    /\ ~UseEnsemble(llm_config, llm_clients)
    /\ llm_result' = CallLlm(llm_config, llm_clients, replies)
    /\ UNCHANGED << llm_config, llm_clients, tasks, orchVars, agentVars, turnVars,
                    extractVars, memoryVars, sessionVars, workflowVars,
                    cacheVars >>

\* _call_llm in ensemble mode, up to "await asyncio.gather(ollama_task,
\* gemini_task, return_exceptions=True)": both provider calls are in flight
EnsembleGather ==
    /\ llm_result.status \in {"ready", "returned", "raised"}
    /\ UseEnsemble(llm_config, llm_clients)
    /\ llm_result' = [NoCall EXCEPT !.status = "gathering"]
    /\ tasks' = [p \in Ensemble |-> Task("pending", NoReply)]
    /\ UNCHANGED << llm_config, llm_clients, orchVars, agentVars, turnVars,
                    extractVars, memoryVars, sessionVars, workflowVars,
                    cacheVars >>

\* a gather that cancels the call still in flight when the other settles
AfterSettle_CancelOther(t, p, reply) ==
    [q \in Ensemble |->
        IF q = p THEN Task("settled", reply)
        ELSE IF t[q].state = "pending" THEN Task("cancelled", NoReply)
        ELSE t[q]]

\* the call of provider p settles with reply (its text or its exception,
\* which return_exceptions=True keeps as a result); gather leaves the other
\* call as it is
AfterSettle(t, p, reply) == [t EXCEPT ![p] = Task("settled", reply)]

TaskSettles(p, reply) ==
    /\ llm_result.status = "gathering"
    /\ tasks[p].state = "pending"
    /\ tasks' = AfterSettle(tasks, p, reply)
    /\ UNCHANGED << llm_config, llm_clients, llm_result, orchVars, agentVars,
                    turnVars, extractVars, memoryVars, sessionVars,
                    workflowVars, cacheVars >>

\* what a call that is over hands to the selection: a cancelled call has no
\* text
TaskResult(t) ==
    IF t.state = "settled" THEN [ok |-> t.ok, length |-> t.length]
    ELSE NoReply

\* gather returns when no call is in flight any more; _call_ensemble picks
\* the result
EnsembleReturn ==
    /\ llm_result.status = "gathering"
    /\ \A p \in Ensemble : tasks[p].state # "pending"
    /\ llm_result' =
           CallLlm(llm_config, llm_clients,
                   [p \in Providers |->
                       IF p \in Ensemble THEN TaskResult(tasks[p])
                       ELSE NoReply])
    /\ UNCHANGED << llm_config, llm_clients, tasks, orchVars, agentVars, turnVars,
                    extractVars, memoryVars, sessionVars, workflowVars,
                    cacheVars >>

NextRouter ==
    \/ \E cfg \in Configs : SetupLlmClients(cfg)
    \/ \E replies \in [Providers -> Replies] : CallLlmAction(replies)
    \/ EnsembleGather
    \/ \E p \in Ensemble, reply \in Replies : TaskSettles(p, reply)
    \/ EnsembleReturn

SpecRouter == Init /\ [][NextRouter]_vars

(* ------------- _extract_json: the four tiers on a response ------------ *)

\* longest response text, in tokens
MaxLen == 4

\* A response is a sequence of tokens: the braces of JSON syntax, a member
\* '"key": value' without a brace in it ("p"), a member whose string value
\* holds an opening brace ("o", as in '"key": "{"'), a JSON number ("n"),
\* prose ("w") and a ``` fence ("f"). Whitespace is left out.
Tokens == {"{", "}", "p", "o", "n", "w", "f"}

Texts == UNION { [1..n -> Tokens] : n \in 0..MaxLen }

\* the caller's default object
ExtractDefault == << "default" >>

\* the characters the regular expressions and str.find look for
IsOpen(t) == t \in {"{", "o"}

IsClose(t) == t = "}"

\* nesting depth of JSON syntax after the first k tokens
RECURSIVE DepthAfter(_, _)
DepthAfter(text, k) ==
    IF k = 0 THEN 0
    ELSE DepthAfter(text, k - 1)
         + (IF text[k] = "{" THEN 1 ELSE IF text[k] = "}" THEN -1 ELSE 0)

\* json.loads(text) returns: the text is one number, or one object whose
\* members are "p", "o" and objects
Parses(text) ==
    \/ text = << "n" >>
    \/ /\ Len(text) >= 2
       /\ text[1] = "{"
       /\ \A k \in 1..Len(text) : text[k] \in {"{", "}", "p", "o"}
       /\ \A k \in 1..(Len(text) - 1) : DepthAfter(text, k) >= 1
       /\ DepthAfter(text, Len(text)) = 0

SetMin(S) == CHOOSE m \in S : \A n \in S : m <= n

SetMax(S) == CHOOSE m \in S : \A n \in S : m >= n

NoMatch == [found |-> FALSE, value |-> << >>]

Match(text, i, j) == [found |-> TRUE, value |-> SubSeq(text, i, j)]

\* Try 1: json.loads(response.strip())
Direct(text) == Match(text, 1, Len(text))

\* Try 2: re.search of a fence, "{" right after it, the shortest stretch up
\* to a "}" that a fence follows; the leftmost fence that has one
Fenced(text) ==
    LET Ends(i) == { j \in (i + 2)..(Len(text) - 1) :
                        text[j] = "}" /\ text[j + 1] = "f" }
        starts == { i \in 1..(Len(text) - 3) :
                        text[i] = "f" /\ text[i + 1] = "{" /\ Ends(i) # {} }
    IN  IF starts = {} THEN NoMatch
        ELSE LET i == SetMin(starts)
             IN  Match(text, i + 1, SetMin(Ends(i)))

\* where \{[^{}]*(?:\{[^{}]*\}[^{}]*)*\} ends when it has matched up to
\* token k - 1 at nesting depth d; 0 when it cannot match
RECURSIVE BalancedEnd(_, _, _)
BalancedEnd(text, k, d) ==
    IF k > Len(text) THEN 0
    ELSE IF IsOpen(text[k])
         THEN IF d = 1 THEN BalancedEnd(text, k + 1, 2) ELSE 0
    ELSE IF IsClose(text[k])
         THEN IF d = 2 THEN BalancedEnd(text, k + 1, 1) ELSE k
    ELSE BalancedEnd(text, k + 1, d)

\* Try 3: re.search of the first object with at most one level of nesting
Balanced(text) ==
    LET starts == { i \in 1..Len(text) :
                        IsOpen(text[i]) /\ BalancedEnd(text, i + 1, 1) # 0 }
    IN  IF starts = {} THEN NoMatch
        ELSE LET i == SetMin(starts)
             IN  Match(text, i, BalancedEnd(text, i + 1, 1))

\* Try 4: response.find('{') to response.rfind('}')
FirstToLast(text) ==
    LET opens  == { i \in 1..Len(text) : IsOpen(text[i]) }
        closes == { j \in 1..Len(text) : IsClose(text[j]) }
    IN  IF opens # {} /\ closes # {} /\ SetMax(closes) > SetMin(opens)
        THEN Match(text, SetMin(opens), SetMax(closes))
        ELSE NoMatch

\* the text tier k hands to json.loads, if it finds one
Candidate(text, k) ==
    CASE k = 1 -> Direct(text)
      [] k = 2 -> Fenced(text)
      [] k = 3 -> Balanced(text)
      [] k = 4 -> FirstToLast(text)

\* an extraction whose direct parse is the only guarded one
Caught_DirectOnly(k) == k = 1

\* the try of tier k has an except clause that swallows the exception
\* json.loads raises ("except:", "except Exception as e:")
Caught(k) == k \in 1..4

\* _extract_json from tier k on
RECURSIVE FromTier(_, _, _)
FromTier(text, k, default) ==
    IF k > 4
    THEN [tier |-> 0, value |-> default, raised |-> FALSE]
    ELSE LET c == Candidate(text, k)
         IN  IF c.found /\ Parses(c.value)
             THEN [tier |-> k, value |-> c.value, raised |-> FALSE]
             ELSE IF c.found /\ ~Caught(k)
             THEN [tier |-> k, value |-> << >>, raised |-> TRUE]
             ELSE FromTier(text, k + 1, default)

\* ProfessionalReActAgent._extract_json(response, default)
ExtractJsonText(text, default) == FromTier(text, 1, default)

\* GeniusPlanner._extract_json(text, default): re.search of \{.*\}, the
\* first "{" to the last "}", and json.loads of it, all in one try
PlannerExtractJson(text, default) ==
    LET c == FirstToLast(text)
    IN  IF c.found /\ Parses(c.value)
        THEN [tier |-> 4, value |-> c.value, raised |-> FALSE]
        ELSE [tier |-> 0, value |-> default, raised |-> FALSE]

\* a caller hands a response text to both extractions
Extract(text) ==
    /\ ~extracted.called
    /\ response' = text
    /\ extracted' =
           [called  |-> TRUE,
            tier    |-> ExtractJsonText(text, ExtractDefault).tier,
            value   |-> ExtractJsonText(text, ExtractDefault).value,
            raised  |-> ExtractJsonText(text, ExtractDefault).raised,
            planner |-> PlannerExtractJson(text, ExtractDefault)]
    /\ UNCHANGED << orchVars, agentVars, turnVars, routerVars, memoryVars,
                    sessionVars, workflowVars, cacheVars >>

NextExtract == \E text \in Texts : Extract(text)

SpecExtract == Init /\ [][NextExtract]_vars

(* ------------------------- ConversationMemory ------------------------- *)

\* interactions a session hands to its memory
MaxAdds == 120

\* add_interaction: "if len(self.short_term) > 10"
ShortTermLimit == 10

\* _consolidate_to_long_term: self.short_term[:5]
ConsolidateCount == 5

\* a trim that keeps the oldest entries: seq[:n]
LastN_Oldest(seq, n) == SubSeq(seq, 1, n)

\* seq[-n:] for n >= 0; Python reads seq[-0:] as the whole list
LastN(seq, n) ==
    IF n = 0 \/ n >= Len(seq) THEN seq
    ELSE SubSeq(seq, Len(seq) - n + 1, Len(seq))

\* a consolidation that moves the newest entries and keeps the oldest
Consolidate_Newest(st, lt, mh) ==
    IF Len(st) > ConsolidateCount
    THEN LET grown == lt \o SubSeq(st, Len(st) - ConsolidateCount + 1, Len(st))
         IN  [short |-> SubSeq(st, 1, Len(st) - ConsolidateCount),
              long  |-> IF Len(grown) > mh THEN LastN(grown, mh) ELSE grown]
    ELSE [short |-> st, long |-> lt]

\* _consolidate_to_long_term
Consolidate(st, lt, mh) ==
    IF Len(st) > ConsolidateCount
    THEN LET grown == lt \o SubSeq(st, 1, ConsolidateCount)
         IN  [short |-> SubSeq(st, ConsolidateCount + 1, Len(st)),
              long  |-> IF Len(grown) > mh THEN LastN(grown, mh) ELSE grown]
    ELSE [short |-> st, long |-> lt]

\* add_interaction(interaction); the interaction (query, result, timestamp)
\* is stood for by its number in the order of the calls
AddInteraction ==
    /\ added < MaxAdds
    /\ added' = added + 1
    /\ LET st == Append(short_term, added + 1)
           m  == IF Len(st) > ShortTermLimit
                 THEN Consolidate(st, long_term, max_history)
                 ELSE [short |-> st, long |-> long_term]
       IN  /\ short_term' = m.short
           /\ long_term' = m.long
    /\ UNCHANGED << max_history, orchVars, agentVars, turnVars, routerVars,
                    extractVars, sessionVars, workflowVars, cacheVars >>

NextMemory == AddInteraction

SpecMemory == Init /\ [][NextMemory]_vars

(* ------------- BigQueryTool as the query tool of _act ----------------- *)

\* a tool that retries once more than _act does
bq_max_retries_OneMore == max_retries + 1

\* BigQueryTool.__init__: self.max_retries = 2
bq_max_retries == 2

\* how bq_runner.execute_query ends: a frame, or an exception whose message
\* holds one of fixable_errors or none of them
QueryOutcomes == {"ok", "fixable", "unfixable"}

\* "if is_fixable and attempt < self.max_retries and self.llm"
CanFix(outcome, a, llm) == outcome = "fixable" /\ a < bq_max_retries /\ llm

\* range(self.max_retries + 1) still holds the value a
InToolRange(a) == a < bq_max_retries + 1

\* what the repair call of _fix_sql can answer: a query, text that does not
\* start with SELECT or WITH, or a failure
FixAnswers == Inputs \cup {"text", "raise"}

\* _fix_sql: the cleaned answer, or broken_sql
FixSql(broken_sql, answer) ==
    IF answer \in {"text", "raise"} THEN broken_sql ELSE answer

\* BigQueryTool(bq_runner, llm_client), registered with the agent
ToolConstruct(llm) ==
    /\ query_pc = "unbuilt"
    /\ query_pc' = "idle"
    /\ tool_llm' = llm
    /\ UNCHANGED << act_attempt, bq_attempt, bq_input, sql_query,
                    call_queries, query_executions, tool_executes,
                    act_result, exceptTool >>

\* _act for a step of the bigquery tool, up to its first tool.execute
ActStart(q) ==
    /\ query_pc \in {"idle", "returned"}
    /\ query_pc' = "execute_query"
    /\ act_attempt' = 0
    /\ bq_attempt' = 0
    /\ bq_input' = q
    /\ sql_query' = q
    /\ call_queries' = 0
    /\ query_executions' = 0
    /\ tool_executes' = 1
    /\ act_result' = "none"
    /\ UNCHANGED << tool_llm, exceptTool >>

\* _act's loop goes round with `input`: the next tool.execute, or, the
\* range exhausted, the final "return {'error': last_error}"
Reexecute(input) ==
    IF InRange(NextAttempt(act_attempt))
    THEN /\ query_pc' = "execute_query"
         /\ act_attempt' = NextAttempt(act_attempt)
         /\ bq_attempt' = 0
         /\ bq_input' = input
         /\ sql_query' = input
         /\ call_queries' = 0
         /\ tool_executes' = tool_executes + 1
         /\ act_result' = act_result
    ELSE /\ query_pc' = "returned"
         /\ act_result' = "error"
         /\ UNCHANGED << act_attempt, bq_attempt, bq_input, sql_query,
                         call_queries, tool_executes >>

\* bq_runner.execute_query(sql_query) returns, and so do the tool and
\* _act, or it raises: into _fix_sql, or out of the tool's loop
RunQuery(outcome) ==
    /\ query_pc = "execute_query"
    /\ query_executions' = query_executions + 1
    /\ call_queries' = call_queries + 1
    /\ query_pc' = IF outcome = "ok" THEN "returned"
                   ELSE IF CanFix(outcome, bq_attempt, tool_llm)
                        THEN "fix_sql" ELSE "raised"
    /\ act_result' = IF outcome = "ok" THEN "ok" ELSE act_result
    /\ UNCHANGED << tool_llm, act_attempt, bq_attempt, bq_input, sql_query,
                    tool_executes, exceptTool >>

\* _fix_sql returns and the tool's loop goes round; the range exhausted,
\* "raise Exception(f'Failed after ...')"
FixSqlReturn(answer) ==
    /\ query_pc = "fix_sql"
    /\ sql_query' = FixSql(sql_query, answer)
    /\ bq_attempt' = bq_attempt + 1
    /\ query_pc' = IF InToolRange(bq_attempt + 1)
                   THEN "execute_query" ELSE "raised"
    /\ UNCHANGED << tool_llm, act_attempt, bq_input, call_queries,
                    query_executions, tool_executes, act_result, exceptTool >>

\* the tool's exception reaches _act's except branch
ActExcept ==
    /\ query_pc = "raised"
    /\ IF CanRepair(act_attempt, "bigquery")
       THEN /\ query_pc' = "react_fix"
            /\ UNCHANGED << act_attempt, bq_attempt, bq_input, sql_query,
                            call_queries, tool_executes, act_result >>
       ELSE IF act_attempt = max_retries
            THEN /\ query_pc' = "returned"
                 /\ act_result' = "error"
                 /\ UNCHANGED << act_attempt, bq_attempt, bq_input,
                                 sql_query, call_queries, tool_executes >>
            ELSE Reexecute(bq_input)
    /\ UNCHANGED << tool_llm, query_executions, exceptTool >>

\* _react_fix_query returns in the except branch: a new input is retried,
\* and so is the old one, the handler falling through before the last
\* attempt
ReactFixReturn(answer) ==
    /\ query_pc = "react_fix"
    /\ LET fixed_input == ReactFixQuery(bq_input, answer) IN
       IF fixed_input # "" /\ fixed_input # bq_input
       THEN Reexecute(fixed_input)
       ELSE IF act_attempt = max_retries
            THEN /\ query_pc' = "returned"
                 /\ act_result' = "error"
                 /\ UNCHANGED << act_attempt, bq_attempt, bq_input,
                                 sql_query, call_queries, tool_executes >>
            ELSE Reexecute(bq_input)
    /\ UNCHANGED << tool_llm, query_executions, exceptTool >>

NextTool ==
    \/ \E llm \in BOOLEAN : ToolConstruct(llm)
    \/ \E q \in Inputs : ActStart(q)
    \/ \E outcome \in QueryOutcomes : RunQuery(outcome)
    \/ \E answer \in FixAnswers : FixSqlReturn(answer)
    \/ ActExcept
    \/ \E answer \in RepairAnswers : ReactFixReturn(answer)

SpecTool == Init /\ [][NextTool]_vars

(* ----------------------- PlanAndExecuteAgent -------------------------- *)

\* longest plan handed to execute
MaxSubtasks == 3

\* the subtasks a plan can be made of: subtasks of a registered tool, and
\* one of a tool that is not registered; 'critical' absent counts as False
Subtasks ==
    [id : TaskIds, tool : {"bigquery"}, dependencies : SUBSET TaskIds,
     critical : BOOLEAN]
    \cup { [id |-> "task_2", tool |-> "lookup", dependencies |-> {},
            critical |-> FALSE] }

\* the plans handed to execute
Plans == UNION { [1..k -> Subtasks] : k \in 0..MaxSubtasks }

\* a check that asks only for the dependency to have run
DependenciesMet_Ran(subtask, results) ==
    \A dep \in subtask.dependencies : results[dep] # "absent"

\* _dependencies_met
DependenciesMet(subtask, results) ==
    \A dep \in subtask.dependencies : results[dep] = "success"

\* 'completed': all(r["status"] == "success" for r in results.values())
Completed(results) ==
    \A id \in TaskIds : results[id] # "absent" => results[id] = "success"

\* execute(plan), up to the loop; a call keeps nothing for the next one,
\* so one call is followed
PeExecute(p) ==
    /\ pe_pc = "idle"
    /\ pe_pc' = "loop"
    /\ pe_plan' = p
    /\ pe_idx' = 1
    /\ pe_results' = [id \in TaskIds |-> "absent"]
    /\ pe_log' = << >>
    /\ pe_completed' = FALSE
    /\ pe_status' = [i \in 1..Len(p) |-> "pending"]
    /\ pe_called' = {}
    /\ pe_critical_failed' = FALSE
    /\ UNCHANGED exceptPlanExec

\* the except branch: the subtask is recorded failed, and the loop breaks
\* if it is marked critical
SubtaskFails ==
    LET subtask == pe_plan[pe_idx] IN
    /\ pe_results' = [pe_results EXCEPT ![subtask.id] = "failed"]
    /\ pe_log' = Append(pe_log,
                        [subtask_id |-> subtask.id, status |-> "failed"])
    /\ pe_status' = [pe_status EXCEPT ![pe_idx] = "failed"]
    /\ pe_critical_failed' = (pe_critical_failed \/ subtask.critical)
    /\ pe_pc' = IF subtask.critical THEN "break" ELSE "loop"
    /\ pe_idx' = pe_idx + 1

\* one iteration up to tool.execute: dependencies unmet, the subtask is
\* passed over; the tool not registered, it fails
SubtaskStart ==
    /\ pe_pc = "loop"
    /\ pe_idx <= Len(pe_plan)
    /\ LET subtask == pe_plan[pe_idx] IN
       IF ~DependenciesMet(subtask, pe_results)
       THEN /\ pe_idx' = pe_idx + 1
            /\ pe_status' = [pe_status EXCEPT ![pe_idx] = "skipped"]
            /\ UNCHANGED << pe_pc, pe_results, pe_log, pe_called,
                            pe_critical_failed >>
       ELSE IF subtask.tool \notin Tools
            THEN SubtaskFails /\ pe_called' = pe_called
            ELSE /\ pe_pc' = "tool"
                 /\ pe_called' = pe_called \cup {pe_idx}
                 /\ UNCHANGED << pe_idx, pe_results, pe_log, pe_status,
                                 pe_critical_failed >>
    /\ UNCHANGED << pe_plan, pe_completed, exceptPlanExec >>

\* tool.execute(tool_input) returns or raises
SubtaskTool(outcome) ==
    /\ pe_pc = "tool"
    /\ IF outcome = "ok"
       THEN LET subtask == pe_plan[pe_idx] IN
            /\ pe_results' = [pe_results EXCEPT ![subtask.id] = "success"]
            /\ pe_log' = Append(pe_log, [subtask_id |-> subtask.id,
                                         status |-> "success"])
            /\ pe_status' = [pe_status EXCEPT ![pe_idx] = "success"]
            /\ pe_idx' = pe_idx + 1
            /\ pe_pc' = "loop"
            /\ pe_critical_failed' = pe_critical_failed
       ELSE SubtaskFails
    /\ UNCHANGED << pe_plan, pe_completed, pe_called, exceptPlanExec >>

\* the loop left, execute returns
PeReturn ==
    /\ \/ pe_pc = "loop" /\ pe_idx > Len(pe_plan)
       \/ pe_pc = "break"
    /\ pe_pc' = "returned"
    /\ pe_completed' = Completed(pe_results)
    /\ UNCHANGED << pe_plan, pe_idx, pe_results, pe_log, pe_status,
                    pe_called, pe_critical_failed, exceptPlanExec >>

NextPlanExec ==
    \/ pe_pc = "idle" /\ \E p \in Plans : PeExecute(p)
    \/ SubtaskStart
    \/ \E outcome \in {"ok", "raise"} : SubtaskTool(outcome)
    \/ PeReturn

SpecPlanExec == Init /\ [][NextPlanExec]_vars

(* ----------------------------- ReActAgent ----------------------------- *)

\* largest max_iterations an agent is built with
MaxIterations == 3

\* what _parse_response makes of the reasoning call's answer: a non-empty
\* "Final Answer:" line, an "Action:" line naming a tool (registered or
\* not), or neither line; the call can also raise
Reasonings ==
    { [kind |-> k, action |-> "none"] :
          k \in {"final_answer", "no_action", "raise"} }
    \cup { [kind |-> "action", action |-> t] : t \in Tools \cup {"lookup"} }

\* a loop that looks at completed only
Continues_UntilCompleted(iteration, completed) == ~completed

\* 'while state["iteration"] < self.max_iterations and not
\* state["completed"]'
Continues(iteration, completed) ==
    iteration < max_iterations /\ ~completed

\* ReActAgent(tools, llm_client, max_iterations)
ReActConstruct(n) ==
    /\ ra_pc = "unbuilt"
    /\ ra_pc' = "idle"
    /\ max_iterations' = n
    /\ UNCHANGED << ra_iteration, ra_completed, ra_final_answer, ra_error,
                    current_action, observations, ra_tool_actions,
                    ra_exceptions, exceptReAct >>

\* execute(query), up to the first reasoning call, or to its return when
\* the loop is not entered
ReActExecute ==
    /\ ra_pc \in {"idle", "returned"}
    /\ ra_iteration' = 0
    /\ ra_completed' = FALSE
    /\ ra_final_answer' = FALSE
    /\ ra_error' = FALSE
    /\ current_action' = "none"
    /\ observations' = << >>
    /\ ra_tool_actions' = 0
    /\ ra_exceptions' = 0
    /\ ra_pc' = IF Continues(0, FALSE) THEN "reason" ELSE "returned"
    /\ UNCHANGED << max_iterations, exceptReAct >>

\* the except branch: the error is recorded and the loop left
ReActFails ==
    /\ ra_error' = TRUE
    /\ ra_exceptions' = ra_exceptions + 1
    /\ ra_pc' = "returned"
    /\ UNCHANGED << ra_iteration, ra_completed, ra_final_answer,
                    observations, ra_tool_actions >>

\* reason(state) returns or raises; a final answer ends the loop, an
\* action goes to act, which raises for a tool that is not registered
ReActReason(r) ==
    /\ ra_pc = "reason"
    /\ IF r.kind = "final_answer"
       THEN /\ ra_final_answer' = TRUE
            /\ ra_completed' = TRUE
            /\ ra_pc' = "returned"
            /\ UNCHANGED << ra_iteration, ra_error, current_action,
                            observations, ra_tool_actions, ra_exceptions >>
       ELSE IF r.kind \in {"no_action", "raise"}
       THEN ReActFails /\ current_action' = current_action
       ELSE IF r.action \notin Tools
       THEN ReActFails /\ current_action' = r.action
       ELSE /\ ra_pc' = "act"
            /\ current_action' = r.action
            /\ ra_tool_actions' = ra_tool_actions + 1
            /\ UNCHANGED << ra_iteration, ra_completed, ra_final_answer,
                            ra_error, observations, ra_exceptions >>
    /\ UNCHANGED << max_iterations, exceptReAct >>

\* tool.execute returns: observe, iteration += 1, and the loop condition;
\* or it raises
ReActAct(outcome) ==
    /\ ra_pc = "act"
    /\ IF outcome = "ok"
       THEN /\ ra_iteration' = ra_iteration + 1
            /\ ra_pc' = IF Continues(ra_iteration + 1, ra_completed)
                        THEN "reason" ELSE "returned"
            /\ observations' = Append(observations, current_action)
            /\ UNCHANGED << ra_completed, ra_final_answer, ra_error,
                            ra_tool_actions, ra_exceptions >>
       ELSE ReActFails
    /\ UNCHANGED << max_iterations, current_action, exceptReAct >>

ReasonReturns == \E r \in Reasonings : ReActReason(r)

ActReturns == \E outcome \in {"ok", "raise"} : ReActAct(outcome)

NextReAct ==
    \/ \E n \in 0..MaxIterations : ReActConstruct(n)
    \/ ReActExecute
    \/ ReasonReturns
    \/ ActReturns

\* every reasoning call and every tool call comes back
SpecReAct ==
    Init /\ [][NextReAct]_vars /\ WF_vars(ReasonReturns) /\ WF_vars(ActReturns)

(* ------------------- the LangGraph showcase graph --------------------- *)

\* steps after which the graph runtime stops a run (its default limit)
RecursionLimit == 25

\* a routing that retries as long as there is an error
RouteAfterValidation_NoLimit(error, count) ==
    IF error THEN "error_recovery" ELSE "synthesis"

\* route_after_validation
RouteAfterValidation(error, count) ==
    IF error /\ count < 3 THEN "error_recovery"
    ELSE IF error THEN "end"
    ELSE "synthesis"

\* route_after_understanding
RouteAfterUnderstanding(clarify) ==
    IF clarify THEN "end" ELSE "planning"

\* route_after_execution: an AIMessage with tool calls goes to the tools
RouteAfterExecution(last_message) ==
    IF last_message = "ai_tool_calls" THEN "tools" ELSE "validation"

\* validation_node's test: the last message (the messages a node returns
\* are appended, add_messages) is an AIMessage whose content holds "Error"
ValidationFails(last_message) == last_message = "ai_error"

\* what a reasoning call of a node can answer: text, text that holds
\* "Error", or tool calls (from the client bound to the tools)
AiMessages == {"ai", "ai_error"}

ToolAiMessages == AiMessages \cup {"ai_tool_calls"}

\* one step of the run: `node` runs and the edge after it leads to `next`;
\* at the recursion limit the runtime raises instead
GraphStep(node, next) ==
    /\ sc_node = node
    /\ sc_supersteps' = sc_supersteps + 1
    /\ IF sc_supersteps < RecursionLimit
       THEN sc_node' = next /\ sc_raised' = sc_raised
       ELSE sc_node' = "end" /\ sc_raised' = TRUE
    /\ UNCHANGED exceptShowcase

\* run_agent: app.invoke(initial_state)
RunAgent ==
    /\ sc_node \in {"idle", "end"}
    /\ sc_node' = "understanding"
    /\ sc_stage' = "start"
    /\ sc_retry_count' = 0
    /\ sc_needs_clarification' = FALSE
    /\ sc_error' = FALSE
    /\ sc_messages' = << "human" >>
    /\ sc_failed_validations' = 0
    /\ sc_recoveries' = 0
    /\ sc_synthesized' = FALSE
    /\ sc_raised' = FALSE
    /\ sc_supersteps' = 0
    /\ UNCHANGED exceptShowcase

\* understanding_node
UnderstandingNode(clarify) ==
    /\ GraphStep("understanding", RouteAfterUnderstanding(clarify))
    /\ sc_stage' = "understanding"
    /\ sc_needs_clarification' = clarify
    /\ sc_messages' = Append(sc_messages, "ai")
    /\ UNCHANGED << sc_retry_count, sc_error, sc_failed_validations,
                    sc_recoveries, sc_synthesized >>

\* planning_node
PlanningNode ==
    /\ GraphStep("planning", "execution")
    /\ sc_stage' = "planning"
    /\ sc_messages' = Append(sc_messages, "ai")
    /\ UNCHANGED << sc_retry_count, sc_needs_clarification, sc_error,
                    sc_failed_validations, sc_recoveries, sc_synthesized >>

\* execution_node
ExecutionNode(msg) ==
    /\ GraphStep("execution", RouteAfterExecution(msg))
    /\ sc_stage' = "execution"
    /\ sc_messages' = Append(sc_messages, msg)
    /\ UNCHANGED << sc_retry_count, sc_needs_clarification, sc_error,
                    sc_failed_validations, sc_recoveries, sc_synthesized >>

\* ToolNode(tools): a ToolMessage per tool call, whatever the tool returned
ToolsNode ==
    /\ GraphStep("tools", "validation")
    /\ sc_messages' = Append(sc_messages, "tool")
    /\ UNCHANGED << sc_stage, sc_retry_count, sc_needs_clarification,
                    sc_error, sc_failed_validations, sc_recoveries,
                    sc_synthesized >>

\* validation_node and the routing after it
ValidationNode ==
    LET failed == ValidationFails(sc_messages[Len(sc_messages)])
        count  == IF failed THEN sc_retry_count + 1 ELSE sc_retry_count
        next   == RouteAfterValidation(failed, count)
    IN  /\ GraphStep("validation", next)
        /\ sc_stage' = "validation"
        /\ sc_error' = failed
        /\ sc_retry_count' = count
        /\ sc_failed_validations' =
               IF failed THEN sc_failed_validations + 1
               ELSE sc_failed_validations
        /\ sc_recoveries' =
               IF next = "error_recovery" /\ sc_supersteps < RecursionLimit
               THEN sc_recoveries + 1 ELSE sc_recoveries
        /\ UNCHANGED << sc_needs_clarification, sc_messages,
                        sc_synthesized >>

\* error_recovery_node
ErrorRecoveryNode(msg) ==
    /\ GraphStep("error_recovery", "execution")
    /\ sc_stage' = "error_recovery"
    /\ sc_error' = FALSE
    /\ sc_messages' = Append(sc_messages, msg)
    /\ UNCHANGED << sc_retry_count, sc_needs_clarification,
                    sc_failed_validations, sc_recoveries, sc_synthesized >>

\* synthesis_node
SynthesisNode ==
    /\ GraphStep("synthesis", "end")
    /\ sc_stage' = "synthesis"
    /\ sc_messages' = Append(sc_messages, "ai")
    /\ sc_synthesized' = TRUE
    /\ UNCHANGED << sc_retry_count, sc_needs_clarification, sc_error,
                    sc_failed_validations, sc_recoveries >>

\* the reasoning call of a node raises and the run ends in the exception
NodeFails ==
    /\ sc_node \in {"understanding", "planning", "execution",
                     "error_recovery", "synthesis"}
    /\ sc_node' = "end"
    /\ sc_raised' = TRUE
    /\ UNCHANGED << sc_stage, sc_retry_count, sc_needs_clarification,
                    sc_error, sc_messages, sc_failed_validations,
                    sc_recoveries, sc_synthesized, sc_supersteps,
                    exceptShowcase >>

\* a node of the run under way runs
ShowcaseStep ==
    \/ \E clarify \in BOOLEAN : UnderstandingNode(clarify)
    \/ PlanningNode
    \/ \E msg \in ToolAiMessages : ExecutionNode(msg)
    \/ ToolsNode
    \/ ValidationNode
    \/ \E msg \in ToolAiMessages : ErrorRecoveryNode(msg)
    \/ SynthesisNode
    \/ NodeFails

NextShowcase == RunAgent \/ ShowcaseStep

\* app.invoke runs the nodes one after the other until the run ends
SpecShowcase == Init /\ [][NextShowcase]_vars /\ WF_vars(ShowcaseStep)

(* ------------------------------ properties ---------------------------- *)

\* the stages process() reaches once _stage_2_planning has returned
AfterPlan ==
    {"think", "prepare", "execute", "repair", "validate", "interpret",
     "synthesize"}

\* the stages process() reaches once _stage_3_execution has returned
AfterExecute == {"validate", "interpret", "synthesize"}

\* a call of process() has ended
TurnEnded == pc = "idle" /\ cur # NoAgent

Last(log) == log[Len(log)]

\* C1: for every plan step _act calls the tool's execute at most
\* max_retries + 1 = 3 times, whatever the results, exceptions and repairs.
C1_RetryBound ==
    /\ max_retries + 1 = 3
    /\ exec_calls <= max_retries + 1

\* a step that took all three calls and still ended in an error
C1_ThreeCalls ==
    /\ exec_calls = 3
    /\ execution_log # << >>
    /\ Last(execution_log).observation = "Error"
    /\ pc \in {"think", "validate"}

\* the Act of a logged step ended in an error or produced no result
ActFailed(entry) ==
    entry.observation \in {"Error", "Action failed - no result"}

\* C2: the step loop stops before the remaining steps if and only if the
\* step just executed failed (an error after the retries, or no result) and
\* is marked critical: no entry follows a failed critical step, and a log
\* shorter than the plan ends with a failed critical step.
C2_StopsIffCriticalFailure ==
    /\ \A i \in 1..Len(execution_log) :
          (ActFailed(execution_log[i]) /\ plan[i].critical)
              => i = Len(execution_log)
    /\ (pc \in AfterExecute /\ Len(execution_log) < Len(plan))
          => /\ execution_log # << >>
             /\ ActFailed(Last(execution_log))
             /\ plan[Len(execution_log)].critical

\* _stage_1_understanding returns an Understanding that asks for a
\* clarification to a session that has already been given one
AmbiguousAgain ==
    /\ pc = "understand"
    /\ stage_1'.present
    /\ stage_1'.needs_clarification
    /\ clarification_given[cur]

\* C3 as claimed: in one session at most one turn returns the clarification
\* result, and every later turn whose Understanding again needs a
\* clarification proceeds to Plan.
C3_SecondAmbiguousTurnPlans ==
    /\ [](\A a \in Agents : clarify_exits[a] <= 1)
    /\ [][AmbiguousAgain => pc' = "plan_sample"]_vars

\* C3 as amended: in one session at most one turn returns the clarification
\* result; a later turn whose Understanding again needs a clarification does
\* not exit with a clarification: it proceeds to Plan when is_data_query is
\* true and returns the static non-data response when it is false.
C3_ClarifyAtMostOnce ==
    /\ [](\A a \in Agents : clarify_exits[a] <= 1)
    /\ [][AmbiguousAgain =>
            /\ result' # "clarification"
            /\ IF stage_1'.is_data_query
               THEN pc' = "plan_sample"
               ELSE pc' = "idle" /\ result' = "non_data"]_vars

\* a second ambiguous turn of a session that got its clarification, in Plan
C3_SecondTurnInPlan ==
    /\ pc = "plan_sample"
    /\ stage_1.needs_clarification
    /\ clarification_given[cur]
    /\ clarify_exits[cur] = 1

\* _stage_4_validation returns to process()
ValidateReturns == pc = "validate" /\ pc' # "validate"

IsPrefix(log, log2) ==
    /\ Len(log) <= Len(log2)
    /\ \A i \in 1..Len(log) : log2[i] = log[i]

\* C6: the execution log has at most one entry per plan step and is never
\* longer than the plan, its i-th entry belongs to the i-th plan step
\* whatever the step ids say, and an entry is never changed once appended
\* (a new call of process() starts a new log).
C6_LogFollowsPlan ==
    /\ [](/\ Len(execution_log) <= Len(plan)
          /\ \A i \in 1..Len(execution_log) :
                /\ execution_log[i].step_number = i
                /\ execution_log[i].step_id = plan[i].id
                /\ execution_log[i].action = plan[i].action)
    /\ [][ \/ IsPrefix(execution_log, execution_log')
           \/ (pc = "idle" /\ pc' = "understand" /\ execution_log' = << >>)
         ]_vars

\* a complete log of a plan whose step ids are out of order
C6_FullLogOutOfOrderIds ==
    /\ pc \in AfterExecute
    /\ Len(plan) >= 2
    /\ Len(execution_log) = Len(plan)
    /\ plan[1].id > plan[2].id

\* C7: process() never lets an exception escape: every call that has ended
\* returned a result, and an exception raised in a stage ended it with
\* {success: False, error, query}.
C7_NoExceptionEscapes ==
    /\ result # "escaped"
    /\ TurnEnded =>
          result \in {"clarification", "non_data", "full", "error"}

\* a turn ended by an exception raised in the middle of Execute
C7_RaisedInExecute ==
    /\ TurnEnded
    /\ result = "error"
    /\ execution_log # << >>
    /\ Len(execution_log) < Len(plan)

\* C8: when the repair call returns an input identical to the one that just
\* failed, no further execute call is made for that step, whether the tool
\* returned an error result or raised.
C8_NoExecuteAfterIdenticalRepair == stalled => pc # "execute"

\* C9: every step whose Act ends in an error gets a log entry with status
\* failed and is not counted in completed_steps.
C9_ErrorStepsLoggedFailed ==
    /\ \A i \in 1..Len(execution_log) :
          execution_log[i].observation = "Error"
              => execution_log[i].status = "failed"
    /\ pc \in AfterExecute =>
          completed_steps <=
              Cardinality({ i \in 1..Len(execution_log) :
                              execution_log[i].observation # "Error" })

\* C10: once a turn has run Explore and populated the schema cache, no
\* later turn of any agent or session in the process runs Explore.
C10_ExploreOncePerProcess ==
    [][(shared_schema_cache /\ pc = "idle" /\ pc' = "understand")
          => ~stage_0']_vars

Max(m, n) == IF m > n THEN m ELSE n

C12_RaisesOnlyIfAllFailed ==
    llm_result.mode = "single" =>
        /\ llm_result.status = "raised" =>
              \A p \in llm_clients :
                  /\ p \in llm_result.tried
                  /\ ~llm_result.replies[p].ok
        /\ (\E p \in llm_clients : llm_result.replies[p].ok) =>
              llm_result.status = "returned"

\* a reasoning call of _stage_4_validation comes back
ValidatorAnswers == pc = "validate" /\ val_calls' = val_calls + 1

\* the fallback validation
Heuristic(confidence) ==
    [present |-> TRUE, valid |-> (completed_steps > 0),
     confidence |-> confidence]

\* C13 as claimed: when the validator's response cannot be parsed as the
\* expected structure (text that does not parse, or a value lacking a key),
\* the Validate stage makes at most 3 reasoning calls and then returns the
\* heuristic result valid = (completed_steps > 0) with confidence 0.7.
C13_UnparsedEndsInFallback ==
    /\ [](val_calls <= 3)
    /\ [][(ValidatorAnswers /\ val_response' \in {"unparsed", "missing"}
              /\ pc' # "validate")
            => stage_4' = Heuristic(70)]_vars

\* C13 as amended: a response that cannot be parsed at all ends the stage
\* after that one call with the default valid = (completed_steps > 0),
\* confidence 0.8, and is not retried; a response that parses but lacks
\* 'valid' or 'confidence', and a failing call, are retried, the stage makes
\* at most 3 reasoning calls, and after the third it returns the heuristic
\* valid = (completed_steps > 0) with confidence 0.7.
C13_UnparsedReturnsDefault ==
    /\ [](val_calls <= val_max_retries + 1)
    /\ [][ValidatorAnswers =>
            /\ val_response' = "unparsed" =>
                  (pc' # "validate" /\ stage_4' = Heuristic(80))
            /\ val_response' \in {"missing", "raise"} =>
                  IF val_calls' < val_max_retries + 1
                  THEN pc' = "validate" /\ stage_4' = stage_4
                  ELSE pc' # "validate" /\ stage_4' = Heuristic(70)]_vars

\* Validate left after a single call whose response did not parse
C13_UnparsedAfterOneCall ==
    /\ pc = "interpret"
    /\ val_response = "unparsed"
    /\ val_calls = 1
    /\ stage_4.confidence = 80

\* the second execute of a step whose first execute failed and whose repair
\* call came back with another input
SecondExecuteAfterRepair ==
    /\ pc = "execute"
    /\ exec_calls = 1
    /\ repair_calls = 1
    /\ repaired

\* C16: when a query step's first execute fails, the repair call returns an
\* input different from the failed one and the second execute succeeds, then
\* exactly one repair call and exactly two execute calls are made for the
\* step, the step's result is the successful one, and the success is logged
\* with 2 attempts.
C16_RepairedOnSecondExecute ==
    [][(SecondExecuteAfterRepair /\ last_outcome' = "ok") =>
          /\ pc' \in {"think", "validate"}
          /\ exec_calls' = 2
          /\ repair_calls' = 1
          /\ Len(execution_log') = Len(execution_log) + 1
          /\ Last(execution_log').result_preview = "ok"
          /\ Last(execution_log').status = "success"
          /\ logged_attempts' = 2]_vars

\* a step that succeeded on its second execute, after one repair
C16_SucceededAfterOneRepair ==
    /\ pc \in {"think", "validate"}
    /\ exec_calls = 2
    /\ repair_calls = 1
    /\ repaired
    /\ last_outcome = "ok"
    /\ logged_attempts = 2
    /\ Last(execution_log).result_preview = "ok"

\* a step of a stage of process() (not the construction of an agent)
StageStep == turnVars' # turnVars

Rank(p) ==
    CASE p = "understand" -> 1
      [] p \in {"plan_sample", "plan_strategic", "plan_decompose",
                "plan_optimize", "plan_validate"} -> 2
      [] p \in {"think", "prepare", "execute", "repair"} -> 3
      [] p = "validate" -> 4
      [] p = "interpret" -> 5
      [] p = "synthesize" -> 6

\* C18: within one turn a stage starts only after every earlier stage that
\* runs in the turn has returned: a turn starts with Understand (after
\* Explore, when it runs), each stage is followed by itself or by the next
\* stage of the pipeline, Explore never runs later in the turn, and no other
\* turn takes over while the turn runs.
C18_StagesInOrder ==
    [][ /\ (pc = "idle" /\ pc' # "idle") => pc' = "understand"
        /\ (pc # "idle" /\ pc' # "idle") =>
              Rank(pc') \in {Rank(pc), Rank(pc) + 1}
        /\ pc # "idle" => (stage_0' = stage_0 /\ cur' = cur) ]_vars

\* a turn that ran Explore and every stage up to Synthesize
C18_AllStagesRan ==
    /\ pc = "synthesize"
    /\ stage_0
    /\ Len(execution_log) = Len(plan)
    /\ stage_4.present

\* C19: a tool failure never leaves Execute as an exception: whether
\* execute returns an error or raises on every attempt, _act returns an
\* error value as the step's result, the step gets its log entry, and no
\* step of the retry loop ends the turn.
C19_ToolFailureIsAResult ==
    [][(pc = "execute" \/ pc = "repair") =>
          /\ result' = result
          /\ pc' # "idle"
          /\ \/ pc' \in {"execute", "repair"}
             \/ /\ pc' \in {"think", "validate"}
                /\ Len(execution_log') = Len(execution_log) + 1
                /\ Last(execution_log').step_number = idx
                /\ last_outcome' \in {"error", "raise"} =>
                      /\ Last(execution_log').observation = "Error"
                      /\ Last(execution_log').result_preview = "error"]_vars

\* Execute returned after a tool that raised on all three attempts
C19_RaisedOnEveryAttempt ==
    /\ pc = "validate"
    /\ last_outcome = "raise"
    /\ exec_calls = max_retries + 1
    /\ repair_calls = 2
    /\ Last(execution_log).observation = "Error"

ParsingTiers(text) ==
    { k \in 1..4 : Candidate(text, k).found /\ Parses(Candidate(text, k).value) }

\* C14: structured extraction never raises, whatever the response: it
\* tries the direct parse, the fenced block, the balanced-brace match and
\* the first-brace-to-last-brace substring in that order, returns the first
\* that parses, and returns the caller's default when all four fail. (The
\* planner's own extraction, which has the last tier only, never raises
\* either and returns the default when that tier fails.)
C14_ExtractionNeverRaises ==
    extracted.called =>
        /\ ~extracted.raised
        /\ IF ParsingTiers(response) = {}
           THEN extracted.tier = 0 /\ extracted.value = ExtractDefault
           ELSE /\ extracted.tier = SetMin(ParsingTiers(response))
                /\ extracted.value =
                       Candidate(response, extracted.tier).value
        /\ ~extracted.planner.raised
        /\ extracted.planner.tier = 0 =>
              extracted.planner.value = ExtractDefault

\* the last tier returned an object after the match of the third tier
\* failed to parse
C14_LastTierAfterFailedMatch ==
    /\ extracted.called
    /\ extracted.tier = 4
    /\ Candidate(response, 3).found

\* seq2 is the end of seq
IsSuffix(seq2, seq) ==
    /\ Len(seq2) <= Len(seq)
    /\ \A i \in 1..Len(seq2) : seq2[i] = seq[Len(seq) - Len(seq2) + i]

\* C15: after every add_interaction short_term holds at most 10 entries and
\* long_term at most max_history entries; when short_term exceeds 10,
\* exactly its 5 oldest entries move to the end of long_term, and long_term
\* evicts its oldest entries first (what the memory holds is always the
\* latest interactions, in the order they were added).
C15_MemoryBounded ==
    /\ [](/\ Len(short_term) <= 10
          /\ Len(long_term) <= max_history
          /\ \A i \in 1..Len(long_term \o short_term) :
                (long_term \o short_term)[i] =
                    added - Len(long_term \o short_term) + i)
    /\ [][added' = added + 1 =>
            IF Len(short_term) = 10
            THEN LET grown == long_term \o SubSeq(short_term, 1, 5)
                 IN  /\ short_term' =
                           Append(SubSeq(short_term, 6, 10), added')
                     /\ IsSuffix(long_term', grown)
                     /\ Len(long_term') =
                           IF Len(grown) > max_history
                           THEN max_history ELSE Len(grown)
            ELSE /\ short_term' = Append(short_term, added')
                 /\ long_term' = long_term]_vars

\* a consolidation that made long_term drop its oldest entries
C15_EvictedOldest ==
    /\ Len(long_term) = max_history
    /\ Len(short_term) = 6
    /\ long_term[1] > 1

\* C21: when two sessions run their first turn concurrently in a cold
\* process, exploration (the population of the schema cache) is performed
\* by at most one of them; the other waits for or reuses the populated
\* cache.
C21_OneExplorerAmongFirstTurns ==
    (\A a \in Agents : session_pc[a] = "understand" /\ turns[a] = 1)
        => Cardinality({ a \in Agents : explorations[a] > 0 }) <= 1

\* C22: in DataAnalysisWorkflow a failing validation takes the retry edge
\* from validate_results back to generate_sql at most 2 times per run;
\* after that the run ends, so every run terminates even if validation
\* never succeeds.
C22_RetryEdgeAtMostTwice == retries_taken <= 2

C25_LoserCancelled ==
    [][\A p \in Ensemble :
          (tasks[p].state = "pending" /\ tasks'[p].state = "settled")
              => \A q \in Ensemble \ {p} : tasks'[q].state # "pending"]_vars

\* C25 as amended: in ensemble mode no provider call is cancelled; both are
\* awaited to completion, and the result is picked from the two outcomes
\* only when both calls have settled.
C25_BothCallsAwaited ==
    /\ [](\A p \in Ensemble : tasks[p].state # "cancelled")
    /\ [][(llm_result.status = "gathering"
              /\ llm_result'.status # "gathering")
            => \A p \in Ensemble :
                  /\ tasks[p].state = "settled"
                  /\ llm_result'.replies[p] = TaskResult(tasks[p])]_vars

\* an ensemble call returned the text of one provider after the call of
\* the other had settled with a text as well
C25_BothSettledThenReturned ==
    /\ llm_result.status = "returned"
    /\ llm_result.mode = "ensemble"
    /\ \A p \in Ensemble : tasks[p].state = "settled" /\ tasks[p].ok

\* C26: a turn that ends in ClarifyExit or in the static non-data Done
\* response makes no planner reasoning call and no tool execute call (and
\* no turn makes one once its understanding says the query is not a data
\* query).
C26_ExitsCallNoPlannerNoTool ==
    (\/ result \in {"clarification", "non_data"}
     \/ stage_1.present /\ ~stage_1.is_data_query)
        => ~planner_called /\ ~tool_called

\* a non-data turn of a session whose earlier turn planned and sampled
C26_NonDataAfterPlannedTurn ==
    /\ TurnEnded
    /\ result = "non_data"
    /\ data_samples[cur] # {}

\* C27: every plan returned by the Plan stage has pairwise distinct step
\* ids, and each step's dependsOn lists only ids of steps that appear
\* earlier in the plan.
C27_PlanIdsDistinctAndOrdered ==
    pc \in AfterPlan =>
        /\ \A i, j \in 1..Len(plan) : i # j => plan[i].id # plan[j].id
        /\ \A i \in 1..Len(plan) :
              plan[i].depends_on \subseteq { plan[j].id : j \in 1..(i - 1) }

\* C28: for a step whose action is not the data-source query tool, _act
\* never invokes the repair call and calls the tool's execute exactly once,
\* even when that call returns an error or raises: no repair is awaited for
\* such a step, and no execute call is awaited after one has been made.
C28_OtherToolsExecuteOnce ==
    (/\ pc \in {"execute", "repair"}
     /\ plan[idx].action \in Tools \ {"bigquery"})
        => /\ pc = "execute"
           /\ exec_calls = 0
           /\ repair_calls = 0

\* C29: after any sequence of add_interaction calls, long_term followed by
\* short_term is a contiguous suffix, in insertion order, of all the
\* interactions ever added: nothing is reordered or duplicated, and only
\* the oldest entries are ever lost.
C29_MemoryIsSuffixOfHistory ==
    LET held == long_term \o short_term
        history == [i \in 1..added |-> i]
    IN  /\ IsSuffix(held, history)
        /\ \A i, j \in 1..Len(held) : i < j => held[i] < held[j]

\* the memory is full and has lost interactions
C29_HistoryLongerThanMemory ==
    /\ Len(short_term) = 10
    /\ Len(long_term) = max_history
    /\ added > Len(long_term) + Len(short_term)

\* a get_cached_result call returns
GetReturns == << cache_hits, cache_misses >>' # << cache_hits, cache_misses >>

\* the step counts a hit / a miss and nothing else
CountsHit == cache_hits' = cache_hits + 1 /\ cache_misses' = cache_misses

CountsMiss == cache_misses' = cache_misses + 1 /\ cache_hits' = cache_hits

\* the cache_result calls since the last clear_cache made for the very
\* (query, params) of the call / for a (query, params) with its cache key
StoredFor(query, params) ==
    { i \in 1..Len(stored) :
        stored[i].query = query /\ stored[i].params = params }

StoredUnderKeyOf(query, params) ==
    { i \in 1..Len(stored) :
        << stored[i].query, DumpParams(stored[i].params) >>
            = << query, DumpParams(params) >> }

C31_AtMostNineQueries ==
    /\ tool_executes <= 3
    /\ call_queries <= 3
    /\ query_executions <= 9

\* a step that ran 9 queries, the tool having the repair client
C31_NineQueries ==
    /\ tool_llm
    /\ tool_executes = 3
    /\ query_executions = 9
    /\ act_result = "error"

\* C32: execute reports completed = true only if every subtask of the plan
\* was executed and finished with status success.
C32_CompletedOnlyIfAllSucceeded ==
    (pe_pc = "returned" /\ pe_completed)
        => \A i \in 1..Len(pe_plan) : pe_status[i] = "success"

\* the tool of the subtask at position pe_idx is called in this step
ToolCalled == pe_called' \ pe_called # {}

\* the dependency dep finished with status success before position i
FinishedWell(dep, i) ==
    \E j \in 1..(i - 1) : pe_plan[j].id = dep /\ pe_status[j] = "success"

\* C33: execute never calls a subtask's tool unless every dependency of the
\* subtask has already finished with status success, and after a failed
\* subtask marked critical no further subtask's tool is called.
C33_ToolOnlyAfterDependencies ==
    [][ToolCalled =>
          /\ \A dep \in pe_plan[pe_idx].dependencies :
                 FinishedWell(dep, pe_idx)
          /\ ~pe_critical_failed]_vars

\* the second subtask's tool was called after its dependency, the first
\* subtask, succeeded; it failed, being critical, and execute returned
\* with the third subtask, which has no dependency, never started
C33_CalledAfterDependency ==
    /\ pe_pc = "returned"
    /\ Len(pe_plan) = 3
    /\ pe_status[1] = "success"
    /\ pe_plan[2].dependencies = {pe_plan[1].id}
    /\ 2 \in pe_called
    /\ pe_status[2] = "failed"
    /\ pe_plan[2].critical
    /\ pe_plan[3].dependencies = {}
    /\ pe_status[3] = "pending"

\* a log entry with status success
IsSuccess(entry) == entry.status = "success"

\* C34: in every Execute result, completed_steps equals the number of log
\* entries with status success, and completed_steps <= length of
\* execution_log <= total_steps = plan length.
C34_CompletedStepsCountsSuccesses ==
    pc \in AfterExecute =>
        /\ completed_steps = Len(SelectSeq(execution_log, IsSuccess))
        /\ completed_steps <= Len(execution_log)
        /\ Len(execution_log) <= Len(plan)

\* an Execute result whose log holds a success entry and a failed one
C34_MixedLog ==
    /\ pc \in AfterExecute
    /\ completed_steps = 1
    /\ Len(execution_log) = 2
    /\ \E i \in 1..2 : execution_log[i].status = "failed"

\* the turn under way belongs to an agent with enable_db_exploration =
\* false, and no schema is cached in the process
NoSchemaNoExploration ==
    /\ cur \in Agents
    /\ ~enable_db_exploration[cur]
    /\ ~shared_schema_cache

\* C35: with enable_db_exploration = false and no schema cached in the
\* process, a data-query turn never reaches Execute: the Plan stage fails
\* while sampling and the turn returns the {success: false} result.
C35_NoSchemaFailsInSampling ==
    /\ [](NoSchemaNoExploration =>
             pc \in {"idle", "understand", "plan_sample"})
    /\ [][(pc = "plan_sample" /\ NoSchemaNoExploration /\ pc' # pc)
             => (pc' = "idle" /\ result' = "error" /\ ~planner_called')]_vars

\* a data-query turn of such an agent ended in the failure result after
\* Understand returned and before any planner call
C35_FailedInSampling ==
    /\ pc = "idle"
    /\ NoSchemaNoExploration
    /\ stage_1.present
    /\ stage_1.is_data_query
    /\ ~planner_called
    /\ result = "error"

\* an exception is caught in this step of execute
ExceptionCaught == ra_exceptions' = ra_exceptions + 1

\* C36: ReActAgent.execute always terminates after at most max_iterations
\* tool actions; it ends with completed = true only when a reasoning step
\* produced a final answer, and an exception in any iteration ends the loop
\* with the error recorded and completed = false.
C36_ReActTerminates ==
    /\ [](ra_tool_actions <= max_iterations)
    /\ []((ra_pc = "returned" /\ ra_completed) => ra_final_answer)
    /\ [][ExceptionCaught => (ra_pc' = "returned" /\ ra_error' /\ ~ra_completed')]_vars
    /\ (ra_pc \in {"reason", "act"}) ~> (ra_pc = "returned")

\* execute returned without a final answer after max_iterations tool
\* actions, none of which raised
C36_IterationsUsedUp ==
    /\ ra_pc = "returned"
    /\ max_iterations = MaxIterations
    /\ ra_tool_actions = max_iterations
    /\ Len(observations) = max_iterations
    /\ ~ra_completed
    /\ ~ra_error

\* validation_node fails in this step
ValidationFailed == sc_failed_validations' = sc_failed_validations + 1

\* C37: in the LangGraph showcase graph every run terminates: each failed
\* validation increments retry_count before routing, so error_recovery is
\* entered at most 2 times per run and the third failed validation ends the
\* run without synthesis.
C37_ShowcaseTerminates ==
    /\ [](sc_retry_count = sc_failed_validations)
    /\ [](sc_recoveries <= 2)
    /\ [][(ValidationFailed /\ sc_failed_validations = 2)
             => (sc_node' = "end" /\ ~sc_synthesized')]_vars
    /\ (sc_node \notin {"idle", "end"}) ~> (sc_node = "end")

\* a run ended by its third failed validation, after two recoveries
C37_ThirdFailureEndsRun ==
    /\ sc_node = "end"
    /\ sc_failed_validations = 3
    /\ sc_recoveries = 2
    /\ sc_error
    /\ ~sc_synthesized
    /\ ~sc_raised

\* the provider's call returned the empty string
EmptyReply(reply) == reply.ok /\ reply.length = 0

\* C38: in ensemble mode an empty-string response from a provider is
\* treated like a failure of that provider: the other provider's response
\* is returned, and if both responses are empty an exception is raised.
C38_EmptyReplyCountsAsFailure ==
    llm_result.mode = "ensemble" =>
        \A p \in Ensemble :
            LET q     == CHOOSE other \in Ensemble : other # p
                mine  == llm_result.replies[p]
                other == llm_result.replies[q]
            IN  EmptyReply(mine) =>
                    IF other.ok /\ other.length > 0
                    THEN /\ llm_result.status = "returned"
                         /\ llm_result.provider = q
                         /\ llm_result.length = other.length
                    ELSE llm_result.status = "raised"

\* ollama answered the empty string and gemini's text was returned
C38_EmptyOllamaGeminiReturned ==
    /\ llm_result.mode = "ensemble"
    /\ EmptyReply(llm_result.replies["ollama"])
    /\ llm_result.status = "returned"
    /\ llm_result.provider = "gemini"
    /\ llm_result.length > 0

====
